---- MODULE Spec2Model ----
(***************************************************************************)
(* Model of the baselog-api core: the persistent store (users, projects,   *)
(* API keys, logs, events), the credential manager of src/core/api_key.py, *)
(* the project registry and ownership guard of src/core/project.py, the    *)
(* session authenticator of src/core/auth.py, the log and event operations *)
(* and the routes that call them, and match, map and bind of              *)
(* src/utils/result.py and src/utils/maybe.py.                             *)
(* Every handler is one action; the two-session races on key rotation and  *)
(* on project creation are modelled step by step in SpecRotate and         *)
(* SpecCreateRace.                                                         *)
(***************************************************************************)
EXTENDS Integers, Sequences, FiniteSets, TLC

(***************************************************************************)
(* Bounds of the model.                                                    *)
(***************************************************************************)
MaxProjects == 2
NumSecrets == 3
MaxEvents == 2
MaxChildren == 1
MaxClock == 1
MaxValue == 2

(***************************************************************************)
(* Characters.  A Python str is a sequence of one-character strings.       *)
(***************************************************************************)
Alnum ==
  << "a","b","c","d","e","f","g","h","i","j","k","l","m",
     "n","o","p","q","r","s","t","u","v","w","x","y","z",
     "A","B","C","D","E","F","G","H","I","J","K","L","M",
     "N","O","P","Q","R","S","T","U","V","W","X","Y","Z",
     "0","1","2","3","4","5","6","7","8","9" >>

HexDigits ==
  << "0","1","2","3","4","5","6","7","8","9","a","b","c","d","e","f" >>

Punct == << "_", "-", " ", ".", ";", "*" >>

AllChars == Alnum \o Punct

\* ord(c), up to a renumbering of the characters
CodeTable ==
  [ c \in { AllChars[k] : k \in 1..Len(AllChars) } |->
      CHOOSE k \in 1..Len(AllChars) : AllChars[k] = c ]

Code(c) == CodeTable[c]

Range(s) == { s[i] : i \in 1..Len(s) }

\* Python's `needle in haystack` on str
Contains(haystack, needle) ==
  \E i \in 0..(Len(haystack) - Len(needle)) :
    SubSeq(haystack, i + 1, i + Len(needle)) = needle

(***************************************************************************)
(* src/utils/api_key.py                                                    *)
(***************************************************************************)
API_KEY_PREFIX == << "s","k","_","p","r","o","j","_" >>
API_KEY_LENGTH == 32
DIGEST_LENGTH == 64
MASKED_KEY_COLUMN == 32

\* secrets.choice over ascii_letters + digits, API_KEY_LENGTH times: the
\* n-th draw of the random source
RandomPart(n) ==
  [ j \in 1..API_KEY_LENGTH |-> Alnum[((n * 17 + j * (2 * n + 1)) % Len(Alnum)) + 1] ]

RECURSIVE WeightedSum(_, _, _)
WeightedSum(s, i, w) ==
  IF i > Len(s) THEN 0
  ELSE Code(s[i]) * (w + i) + WeightedSum(s, i + 1, w)

\* hashlib.new("sha256", key.encode()).hexdigest(): a deterministic digest of
\* DIGEST_LENGTH hex digits that depends on every character of the key and on
\* its position
hash_api_key(key) ==
  LET s0 == WeightedSum(key, 1, 0)
      s1 == WeightedSum(key, 1, 1) - s0
  IN [ j \in 1..DIGEST_LENGTH |->
         HexDigits[((s0 + j * s1 + j * j * Len(key)) % 16) + 1] ]

Stars(n) == [ j \in 1..n |-> "*" ]

\* mutant: the length test lets every key through unmasked
create_masked_key_unmasked(full_key) == full_key

create_masked_key(full_key) ==
  IF Len(full_key) < Len(API_KEY_PREFIX) + 8
  THEN full_key
  ELSE LET prefix == SubSeq(full_key, 1, Len(API_KEY_PREFIX))
           first_part == SubSeq(full_key, Len(API_KEY_PREFIX) + 1, Len(API_KEY_PREFIX) + 4)
           last_part == SubSeq(full_key, Len(full_key) - 3, Len(full_key))
           masked_part == Stars(Len(full_key) - Len(prefix) - 8)
       IN prefix \o first_part \o masked_part \o last_part

GenerateApiKey(n) ==
  LET full_key == API_KEY_PREFIX \o RandomPart(n)
  IN [ full_key |-> full_key,
       key_hash |-> hash_api_key(full_key),
       masked_key |-> create_masked_key(full_key) ]

\* the keys the random source yields, in the order of the draws
Generated == [ n \in 1..(NumSecrets + 1) |-> GenerateApiKey(n) ]

generate_api_key(n) == Generated[n]

verify_api_key(key, key_hash) == hash_api_key(key) = key_hash


(***************************************************************************)
(* Inputs of the requests.                                                 *)
(***************************************************************************)
Users == { "u1", "u2" }
ProjectNames == { "demo", "app" }
\* the name of the projects the key and record requests work on
KeyProjectNames == { "demo" }
\* Python None in a str column (NULL): no str equals it
None == << "None" >>
Descriptions == { None, << "c", "i" >> }
\* project ids a request can name: an id is unknown to the store until
\* create_project hands it out
ProjectIds == 1..MaxProjects
Workers == { "w1", "w2" }

(***************************************************************************)
(* State: the tables of the store, the random source, the last call and    *)
(* its result, and the two sessions of the rotation race.                  *)
(***************************************************************************)
VARIABLES
  strict_length,   \* whether the store rejects a string longer than its column
  projects,        \* projects table: id -> [name, owner_id]
  api_keys,        \* api_keys table: set of rows
  events,          \* events table: set of rows
  next_event_id,   \* ids handed out to events so far + 1
  draws,           \* number of keys drawn from the random source
  call,            \* the last call: [seq, op, args, ret], seq alternating
                   \* between one call and the next
  sess,            \* rotation sessions: worker -> [pc, project_id, found, ret]
  next_project_id, \* ids handed out to projects so far + 1
  users,           \* users table: set of rows
  logs,            \* logs table: set of rows
  next_log_id,     \* ids handed out to logs so far + 1
  now              \* the clock, in minutes

vars ==
  << strict_length, projects, api_keys, events, next_event_id, draws, call, sess,
     next_project_id, users, logs, next_log_id, now >>

\* every plaintext secret generate_api_key has produced so far
Issued == { generate_api_key(n).full_key : n \in 1..draws }

(***************************************************************************)
(* Values returned to callers.                                             *)
(***************************************************************************)
HTTPException(status_code, detail) ==
  [ status_code |-> status_code, detail |-> detail ]

Ok(value) == [ kind |-> "Ok", value |-> value ]
Err(error) == [ kind |-> "Err", error |-> error ]
RetNone == [ kind |-> "None" ]
RetBool(b) == [ kind |-> "bool", value |-> b ]
RetKey(row) == [ kind |-> "APIKey", row |-> row ]
RetKeys(rows) == [ kind |-> "list", rows |-> rows ]
Raise(error) == [ kind |-> "raise", error |-> error ]
Response(body) == [ kind |-> "response", body |-> body ]

Idle == [ pc |-> "idle", project_id |-> 0, found |-> 0, ret |-> RetNone ]

(***************************************************************************)
(* src/utils/result.py: reading a Result.                                  *)
(***************************************************************************)
is_err(result) == result.kind = "Err"

\* Ok.unwrap returns the value, Err.unwrap raises
unwrap(result) ==
  IF result.kind = "Ok" THEN result.value
  ELSE Raise([ exception |-> "Exception", message |-> "Tried to unwrap an Err" ])

\* neither Ok nor Err defines unwrap_err
unwrap_err(result) == Raise([ exception |-> "AttributeError", message |-> "unwrap_err" ])

\* return Err(result.unwrap_err()) inside try ... except Exception: what
\* unwrap_err raises is caught and the Err of the except clause returned
ErrOfUnwrapErr(result, caught) ==
  IF unwrap_err(result).kind = "raise" THEN Err(caught)
  ELSE Err(unwrap_err(result))

(***************************************************************************)
(* src/models/api_key.py: the constraints of the api_keys table.           *)
(***************************************************************************)
\* project_id = Column(..., ForeignKey("projects.id"), ...)
ForeignKeyViolated(project_id) == project_id \notin DOMAIN projects

\* mutant: the column is not declared unique
UniqueProjectViolated_dropped(rows, project_id) == FALSE

\* project_id = Column(..., unique=True, ...): one row per project
UniqueProjectViolated(rows, project_id) ==
  \E k \in rows : k.project_id = project_id

\* masked_key = Column(String(32), ...), enforced by a store that checks
\* lengths
MaskedKeyTooLong(masked_key) ==
  strict_length /\ Len(masked_key) > MASKED_KEY_COLUMN

InsertRejected(rows, row) ==
  \/ ForeignKeyViolated(row.project_id)
  \/ UniqueProjectViolated(rows, row.project_id)
  \/ MaskedKeyTooLong(row.masked_key)

ActiveKeys(rows, project_id) ==
  { k \in rows : k.project_id = project_id /\ k.is_active }

(***************************************************************************)
(* src/core/api_key.py as functions of the table: each gives the table     *)
(* after the call and the value returned.                                  *)
(***************************************************************************)
\* the APIKey(...) object of create_api_key
NewKeyRow(rows, project_id, description, n) ==
  LET g == generate_api_key(n)
  IN [ id |-> Cardinality(rows) + 1,
       project_id |-> project_id,
       key_hash |-> g.key_hash,
       masked_key |-> g.masked_key,
       description |-> description,
       is_active |-> TRUE ]

CreateApiKey(rows, project_id, description, n, fault) ==
  LET api_key == NewKeyRow(rows, project_id, description, n)
  IN IF fault \/ InsertRejected(rows, api_key)
     THEN [ rows |-> rows, ret |-> RetNone ]                 \* rollback
     ELSE [ rows |-> rows \cup { api_key }, ret |-> RetKey(api_key) ]

\* mutant: the query does not filter on is_active
DeactivateApiKey_anyrow(rows, project_id, fault) ==
  LET found == { k \in rows : k.project_id = project_id }
  IN IF fault THEN [ rows |-> rows, ret |-> RetBool(FALSE) ]
     ELSE IF found # {}
     THEN LET api_key == CHOOSE k \in found : TRUE
          IN [ rows |-> (rows \ { api_key }) \cup { [ api_key EXCEPT !.is_active = FALSE ] },
               ret |-> RetBool(TRUE) ]
     ELSE [ rows |-> rows, ret |-> RetBool(FALSE) ]

DeactivateApiKey(rows, project_id, fault) ==
  LET found == ActiveKeys(rows, project_id)
  IN IF fault THEN [ rows |-> rows, ret |-> RetBool(FALSE) ]  \* rollback
     ELSE IF found # {}
     THEN LET api_key == CHOOSE k \in found : TRUE
          IN [ rows |-> (rows \ { api_key }) \cup { [ api_key EXCEPT !.is_active = FALSE ] },
               ret |-> RetBool(TRUE) ]
     ELSE [ rows |-> rows, ret |-> RetBool(FALSE) ]

RegenerateApiKey(rows, project_id, description, n, fault1, fault2) ==
  LET d == DeactivateApiKey(rows, project_id, fault1)
  IN CreateApiKey(d.rows, project_id, description, n, fault2)

GetProjectApiKey(rows, project_id) ==
  LET found == ActiveKeys(rows, project_id)
  IN IF found = {} THEN RetNone ELSE RetKey(CHOOSE k \in found : TRUE)

\* mutant: the query does not filter on is_active
GetApiKeyByKeyHash_anyrow(rows, key_hash) ==
  LET found == { k \in rows : k.key_hash = key_hash }
  IN IF found = {} THEN RetNone ELSE RetKey(CHOOSE k \in found : TRUE)

GetApiKeyByKeyHash(rows, key_hash) ==
  LET found == { k \in rows : k.key_hash = key_hash /\ k.is_active }
  IN IF found = {} THEN RetNone ELSE RetKey(CHOOSE k \in found : TRUE)

GetAllActiveApiKeys(rows) == RetKeys({ k \in rows : k.is_active })


(***************************************************************************)
(* src/core/project.py                                                     *)
(***************************************************************************)
NotFoundOrForbidden == HTTPException(404, "Project not found or access denied")
NameConflict == HTTPException(400, "Project name already exists for this user")

\* mutant: the query does not filter on the owner
IsProjectNameAvailable_anyowner(name, user_id, exclude_id, fault) ==
  IF fault THEN FALSE
  ELSE ~ \E p \in DOMAIN projects :
           /\ projects[p].name = name
           /\ p # exclude_id

IsProjectNameAvailable(name, user_id, exclude_id, fault) ==
  IF fault THEN FALSE
  ELSE ~ \E p \in DOMAIN projects :
           /\ projects[p].name = name
           /\ projects[p].owner_id = user_id
           /\ p # exclude_id

\* the row check_project_ownership and get_user_project select
OwnedProject(project_id, user_id) ==
  { p \in DOMAIN projects : p = project_id /\ projects[p].owner_id = user_id }

\* mutant: the project is looked up by id first, the owner compared after
CheckProjectOwnership_leaky(project_id, user_id, fault) ==
  IF fault THEN Err(HTTPException(500, "Database error occurred"))
  ELSE IF project_id \notin DOMAIN projects
  THEN Err(HTTPException(404, "Project not found"))
  ELSE IF projects[project_id].owner_id # user_id
  THEN Err(HTTPException(403, "Access denied"))
  ELSE Ok(TRUE)

CheckProjectOwnership(project_id, user_id, fault) ==
  IF fault THEN Err(HTTPException(500, "Database error occurred"))
  ELSE IF OwnedProject(project_id, user_id) = {}
  THEN Err(NotFoundOrForbidden)
  ELSE Ok(TRUE)

Init ==
  /\ strict_length \in BOOLEAN
  /\ projects = << >>
  /\ api_keys = {}
  /\ events = {}
  /\ next_event_id = 1
  /\ draws = 0
  /\ call = [ seq |-> 0, op |-> "init", args |-> << >>, ret |-> RetNone ]
  /\ sess = [ w \in Workers |-> Idle ]
  /\ next_project_id = 1
  /\ users = {}
  /\ logs = {}
  /\ next_log_id = 1
  /\ now = 0

\* create_project: the projects table after the call and the Result returned
CreateProject(name, owner, fault) ==
  LET id == next_project_id
      new_project == [ name |-> name, owner_id |-> owner ]
  IN IF ~ IsProjectNameAvailable(name, owner, 0, fault = "query")
     THEN [ projects |-> projects, ret |-> Err(NameConflict) ]
     ELSE IF fault = "commit"
     THEN [ projects |-> projects,
            ret |-> Err(HTTPException(500, "Failed to create project")) ]
     ELSE [ projects |-> (id :> new_project) @@ projects,
            ret |-> Ok([ id |-> id, name |-> name, owner_id |-> owner ]) ]

create_project(name, owner, fault) ==
  /\ LET r == CreateProject(name, owner, fault)
     IN /\ is_err(r.ret) \/ next_project_id <= MaxProjects
        /\ projects' = r.projects
        /\ next_project_id' = IF is_err(r.ret) THEN next_project_id ELSE next_project_id + 1
        /\ call' = [ seq |-> 1 - call.seq, op |-> "create_project",
                     args |-> [ name |-> name, owner |-> owner, fault |-> fault ],
                     ret |-> r.ret ]
  /\ UNCHANGED << users, logs, next_log_id, now, strict_length, api_keys, events, next_event_id, draws, sess >>

check_project_ownership(project_id, user_id, fault) ==
  /\ call' = [ seq |-> 1 - call.seq, op |-> "check_project_ownership",
               args |-> [ project_id |-> project_id, user_id |-> user_id, fault |-> fault ],
               ret |-> CheckProjectOwnership(project_id, user_id, fault) ]
  /\ UNCHANGED << users, logs, next_log_id, now, next_project_id, strict_length, projects, api_keys, events, next_event_id, draws, sess >>

(***************************************************************************)
(* src/core/api_key.py: the calls.                                         *)
(***************************************************************************)
create_api_key(project_id, description, fault) ==
  /\ draws < NumSecrets
  /\ LET r == CreateApiKey(api_keys, project_id, description, draws + 1, fault)
     IN /\ api_keys' = r.rows
        /\ call' = [ seq |-> 1 - call.seq, op |-> "create_api_key",
                     args |-> [ project_id |-> project_id, fault |-> fault ],
                     ret |-> r.ret ]
  /\ draws' = draws + 1
  /\ UNCHANGED << users, logs, next_log_id, now, next_project_id, strict_length, projects, events, next_event_id, sess >>

deactivate_api_key(project_id, fault) ==
  /\ LET r == DeactivateApiKey(api_keys, project_id, fault)
     IN /\ api_keys' = r.rows
        /\ call' = [ seq |-> 1 - call.seq, op |-> "deactivate_api_key",
                     args |-> [ project_id |-> project_id, fault |-> fault ],
                     ret |-> r.ret ]
  /\ UNCHANGED << users, logs, next_log_id, now, next_project_id, strict_length, projects, events, next_event_id, draws, sess >>

regenerate_api_key(project_id, description, fault1, fault2) ==
  /\ draws < NumSecrets
  /\ LET r == RegenerateApiKey(api_keys, project_id, description, draws + 1, fault1, fault2)
     IN /\ api_keys' = r.rows
        /\ call' = [ seq |-> 1 - call.seq, op |-> "regenerate_api_key",
                     args |-> [ project_id |-> project_id,
                                fault1 |-> fault1, fault2 |-> fault2 ],
                     ret |-> r.ret ]
  /\ draws' = draws + 1
  /\ UNCHANGED << users, logs, next_log_id, now, next_project_id, strict_length, projects, events, next_event_id, sess >>

get_project_api_key(project_id) ==
  /\ call' = [ seq |-> 1 - call.seq, op |-> "get_project_api_key",
               args |-> [ project_id |-> project_id ],
               ret |-> GetProjectApiKey(api_keys, project_id) ]
  /\ UNCHANGED << users, logs, next_log_id, now, next_project_id, strict_length, projects, api_keys, events, next_event_id, draws, sess >>

get_api_key_by_key_hash(key_hash) ==
  /\ call' = [ seq |-> 1 - call.seq, op |-> "get_api_key_by_key_hash",
               args |-> [ key_hash |-> key_hash ],
               ret |-> GetApiKeyByKeyHash(api_keys, key_hash) ]
  /\ UNCHANGED << users, logs, next_log_id, now, next_project_id, strict_length, projects, api_keys, events, next_event_id, draws, sess >>

get_all_active_api_keys ==
  /\ call' = [ seq |-> 1 - call.seq, op |-> "get_all_active_api_keys", args |-> << >>,
               ret |-> GetAllActiveApiKeys(api_keys) ]
  /\ UNCHANGED << users, logs, next_log_id, now, next_project_id, strict_length, projects, api_keys, events, next_event_id, draws, sess >>


(***************************************************************************)
(* src/routers/api_key.py, src/routers/log.py: key routes and the          *)
(* key-authentication dependency.                                          *)
(***************************************************************************)
\* a secret no key was ever issued with
WrongKey == API_KEY_PREFIX \o [ j \in 1..API_KEY_LENGTH |-> "-" ]
PresentedSecrets == Issued \cup { WrongKey }

\* hash_api_key, tabulated once over the secrets a request can present
Digest ==
  [ key \in { Generated[n].full_key : n \in DOMAIN Generated } \cup { WrongKey } |->
      hash_api_key(key) ]

PresentedHashes == { Digest[s] : s \in PresentedSecrets }

\* mutant: the lookup by secret also finds inactive keys
get_api_key_by_key_anyrow(rows, api_key) ==
  GetApiKeyByKeyHash_anyrow(rows, Digest[api_key])

\* core.api_key.get_api_key_by_key(api_key, db), imported by the routers
get_api_key_by_key(rows, api_key) ==
  GetApiKeyByKeyHash(rows, Digest[api_key])

GetApiKeyDep(rows, api_key) ==
  LET api_key_obj == get_api_key_by_key(rows, api_key)
  IN IF api_key_obj.kind = "None"
     THEN Raise(HTTPException(403, "Invalid API Key"))
     ELSE IF ~ api_key_obj.row.is_active
     THEN Raise(HTTPException(403, "API Key is not active"))
     ELSE api_key_obj

get_api_key_dep(api_key) ==
  /\ call' = [ seq |-> 1 - call.seq, op |-> "get_api_key_dep", args |-> [ api_key |-> api_key ],
               ret |-> GetApiKeyDep(api_keys, api_key) ]
  /\ UNCHANGED << users, logs, next_log_id, now, next_project_id, strict_length, projects, api_keys, events, next_event_id, draws, sess >>

generate_api_key_route(project_id, current_user, fault1, fault2) ==
  LET ownership_check == CheckProjectOwnership(project_id, current_user, fault1)
      args == [ project_id |-> project_id, user_id |-> current_user,
                fault1 |-> fault1, fault2 |-> fault2 ]
  IN /\ IF is_err(ownership_check)
        THEN /\ call' = [ seq |-> 1 - call.seq, op |-> "generate_api_key_route", args |-> args,
                          ret |-> unwrap_err(ownership_check) ]
             /\ UNCHANGED << api_keys, draws >>
        ELSE /\ draws < NumSecrets
             /\ LET r == CreateApiKey(api_keys, project_id, None, draws + 1, fault2)
                IN /\ api_keys' = r.rows
                   /\ draws' = draws + 1
                   \* api_key_obj, key = create_api_key(...): not a pair
                   /\ call' = [ seq |-> 1 - call.seq, op |-> "generate_api_key_route", args |-> args,
                                ret |-> Raise([ exception |-> "TypeError", message |-> "cannot unpack" ]) ]
     /\ UNCHANGED << users, logs, next_log_id, now, next_project_id, strict_length, projects, events, next_event_id, sess >>

\* core.api_key.reset_api_key(project_id, db), imported by the router
reset_api_key(rows, project_id, n, fault1, fault2) ==
  RegenerateApiKey(rows, project_id, None, n, fault1, fault2)

reset_api_key_route(project_id, current_user, fault1, fault2) ==
  LET ownership_check == CheckProjectOwnership(project_id, current_user, fault1)
      args == [ project_id |-> project_id, user_id |-> current_user,
                fault1 |-> fault1, fault2 |-> fault2 ]
  IN /\ IF is_err(ownership_check)
        THEN /\ call' = [ seq |-> 1 - call.seq, op |-> "reset_api_key_route", args |-> args,
                          ret |-> unwrap_err(ownership_check) ]
             /\ UNCHANGED << api_keys, draws >>
        ELSE /\ draws < NumSecrets
             /\ LET r == reset_api_key(api_keys, project_id, draws + 1, FALSE, fault2)
                IN /\ api_keys' = r.rows
                   /\ draws' = draws + 1
                   /\ call' = [ seq |-> 1 - call.seq, op |-> "reset_api_key_route", args |-> args,
                                ret |-> Response([ new_key |-> << "*", "*", "*" >>,
                                                   message |-> "API key has been reset successfully" ]) ]
     /\ UNCHANGED << users, logs, next_log_id, now, next_project_id, strict_length, projects, events, next_event_id, sess >>

(***************************************************************************)
(* The credential manager and ownership guard, one call after another.     *)
(***************************************************************************)
Next ==
  \/ \E name \in KeyProjectNames, owner \in Users, fault \in { "none", "query", "commit" } :
       create_project(name, owner, fault)
  \/ \E p \in ProjectIds, u \in Users, fault \in BOOLEAN :
       check_project_ownership(p, u, fault)
  \/ \E p \in ProjectIds, d \in Descriptions, fault \in BOOLEAN :
       create_api_key(p, d, fault)
  \/ \E p \in ProjectIds, fault \in BOOLEAN :
       deactivate_api_key(p, fault)
  \/ \E p \in ProjectIds, d \in Descriptions, fault1 \in BOOLEAN, fault2 \in BOOLEAN :
       regenerate_api_key(p, d, fault1, fault2)
  \/ \E p \in ProjectIds : get_project_api_key(p)
  \/ \E h \in PresentedHashes : get_api_key_by_key_hash(h)
  \/ get_all_active_api_keys
  \/ \E s \in PresentedSecrets : get_api_key_dep(s)

Spec == Init /\ [][Next]_vars


(***************************************************************************)
(* src/core/event.py                                                       *)
(***************************************************************************)
EVENT_TYPE_MAX == 255
EVENT_STATUS_MAX == 50

IsSpace(c) == c = " "
IsAlnum(c) == c \in Range(Alnum)

RECURSIVE LStrip(_)
LStrip(s) == IF s # << >> /\ IsSpace(Head(s)) THEN LStrip(Tail(s)) ELSE s

RECURSIVE RStrip(_)
RStrip(s) ==
  IF s # << >> /\ IsSpace(s[Len(s)]) THEN RStrip(SubSeq(s, 1, Len(s) - 1)) ELSE s

\* str.strip()
Strip(s) == RStrip(LStrip(s))

FormatOk(s, max_len) ==
  /\ Len(s) <= max_len
  /\ Strip(s) # << >>
  /\ \A i \in 1..Len(Strip(s)) :
       IsAlnum(Strip(s)[i]) \/ Strip(s)[i] \in { "_", "-", " ", "." }

validate_event_format(event_type) == FormatOk(event_type, EVENT_TYPE_MAX)

validate_status_transition(old_status, new_status) ==
  IF old_status = None THEN TRUE
  ELSE IF new_status = None THEN TRUE
  ELSE FormatOk(new_status, EVENT_STATUS_MAX)

EventTypes == { << "o", "k" >>, << "b", ";" >> }
EventStatuses == { None, << "s", "h", "i", "p", "p", "e", "d" >> }
EmptyDict == << >>

\* create_event: the table after the call and the Result returned
CreateEvent(rows, id, project_id, event_type, event_status, fault) ==
  IF ~ validate_event_format(event_type)
  THEN [ rows |-> rows,
         ret |-> Err(HTTPException(400, "Invalid event type format")) ]
  ELSE IF fault \/ project_id \notin DOMAIN projects   \* commit raises
  THEN [ rows |-> rows,
         ret |-> Err(HTTPException(500, "Failed to create event")) ]
  ELSE LET new_event == [ id |-> id, project_id |-> project_id,
                          event_type |-> event_type,
                          event_status |-> event_status,
                          event_metadata |-> EmptyDict ]
       IN [ rows |-> rows \cup { new_event }, ret |-> Ok(new_event) ]

\* get_event_by_id: the join of events and projects on the caller's id
GetEventById(rows, event_id, user_id, fault) ==
  LET found == { e \in rows : /\ e.id = event_id
                              /\ e.project_id \in DOMAIN projects
                              /\ projects[e.project_id].owner_id = user_id }
  IN IF fault THEN Err(HTTPException(500, "Database error occurred"))
     ELSE IF found = {} THEN Err(HTTPException(404, "Event not found or access denied"))
     ELSE Ok(CHOOSE e \in found : TRUE)

\* update_event with event_data = {"event_status": ...} or {}
UpdateEvent(rows, event_id, has_status, event_status, user_id, fault) ==
  LET event_result == GetEventById(rows, event_id, user_id, fault)
  IN IF is_err(event_result)
     THEN [ rows |-> rows,
            ret |-> ErrOfUnwrapErr(event_result, HTTPException(500, "Failed to update event")) ]
     ELSE LET event == event_result.value
              updated == IF has_status
                         THEN [ event EXCEPT !.event_status = event_status ]
                         ELSE event
          IN IF has_status /\ ~ validate_status_transition(event.event_status, event_status)
             THEN [ rows |-> rows,
                    ret |-> Err(HTTPException(400, "Invalid status transition")) ]
             ELSE [ rows |-> (rows \ { event }) \cup { updated }, ret |-> Ok(updated) ]

DeleteEvent(rows, event_id, user_id, fault) ==
  LET event_result == GetEventById(rows, event_id, user_id, fault)
  IN IF is_err(event_result)
     THEN [ rows |-> rows,
            ret |-> ErrOfUnwrapErr(event_result, HTTPException(500, "Failed to delete event")) ]
     ELSE [ rows |-> rows \ { event_result.value }, ret |-> Ok(TRUE) ]

(***************************************************************************)
(* src/routers/event.py: the bearer-token routes.  current_user is the     *)
(* user get_current_user resolved from the token.                          *)
(***************************************************************************)
\* if result.is_err(): raise result.unwrap_err(); return result.unwrap()
RouteAnswer(result) ==
  IF is_err(result) THEN unwrap_err(result) ELSE Response(unwrap(result))

create_event_route(project_id, event_type, event_status, current_user, fault) ==
  /\ next_event_id <= MaxEvents
  /\ LET r == CreateEvent(events, next_event_id, project_id, event_type, event_status, fault)
     IN /\ events' = r.rows
        /\ next_event_id' = IF is_err(r.ret) THEN next_event_id ELSE next_event_id + 1
        /\ call' = [ seq |-> 1 - call.seq, op |-> "create_event_route",
                     args |-> [ project_id |-> project_id, user_id |-> current_user,
                                fault |-> fault ],
                     ret |-> RouteAnswer(r.ret) ]
  /\ UNCHANGED << users, logs, next_log_id, now, next_project_id, strict_length, projects, api_keys, draws, sess >>

update_event_route(event_id, has_status, event_status, current_user, fault) ==
  /\ LET r == UpdateEvent(events, event_id, has_status, event_status, current_user, fault)
     IN /\ events' = r.rows
        /\ call' = [ seq |-> 1 - call.seq, op |-> "update_event_route",
                     args |-> [ event_id |-> event_id, user_id |-> current_user,
                                fault |-> fault ],
                     ret |-> RouteAnswer(r.ret) ]
  /\ UNCHANGED << users, logs, next_log_id, now, next_project_id, strict_length, projects, api_keys, next_event_id, draws, sess >>

delete_event_route(event_id, current_user, fault) ==
  /\ LET r == DeleteEvent(events, event_id, current_user, fault)
     IN /\ events' = r.rows
        /\ call' = [ seq |-> 1 - call.seq, op |-> "delete_event_route",
                     args |-> [ event_id |-> event_id, user_id |-> current_user,
                                fault |-> fault ],
                     ret |-> RouteAnswer(r.ret) ]
  /\ UNCHANGED << users, logs, next_log_id, now, next_project_id, strict_length, projects, api_keys, next_event_id, draws, sess >>

(***************************************************************************)
(* The bearer-token routes on events, and those on keys, one request after *)
(* another.                                                                *)
(***************************************************************************)
NextRoutes ==
  \/ \E owner \in Users : \E name \in KeyProjectNames : create_project(name, owner, "none")
  \/ \E p \in ProjectIds, t \in EventTypes, st \in EventStatuses, u \in Users,
        fault \in BOOLEAN :
       create_event_route(p, t, st, u, fault)
  \/ \E e \in 1..MaxEvents, has_status \in BOOLEAN, st \in EventStatuses, u \in Users,
        fault \in BOOLEAN :
       update_event_route(e, has_status, st, u, fault)
  \/ \E e \in 1..MaxEvents, u \in Users, fault \in BOOLEAN :
       delete_event_route(e, u, fault)

NextKeyRoutes ==
  \/ \E owner \in Users : \E name \in KeyProjectNames : create_project(name, owner, "none")
  \/ \E p \in ProjectIds, u \in Users, fault1 \in BOOLEAN, fault2 \in BOOLEAN :
       generate_api_key_route(p, u, fault1, fault2)
  \/ \E p \in ProjectIds, u \in Users, fault1 \in BOOLEAN, fault2 \in BOOLEAN :
       reset_api_key_route(p, u, fault1, fault2)
  \/ \E s \in PresentedSecrets : get_api_key_dep(s)

SpecKeyRoutes == Init /\ [][NextKeyRoutes]_vars

SpecRoutes == Init /\ [][NextRoutes]_vars

(***************************************************************************)
(* Two sessions running regenerate_api_key at once.  A session's steps are *)
(* the statements the store sees: the SELECT of deactivate_api_key, its    *)
(* UPDATE and commit, and the INSERT and commit of create_api_key.         *)
(***************************************************************************)
\* a key row as create_api_key stored it from the n-th draw
StoredKey(id, project_id, n, is_active) ==
  [ NewKeyRow({}, project_id, None, n) EXCEPT !.id = id, !.is_active = is_active ]

InitRotate ==
  /\ strict_length \in BOOLEAN
  /\ projects = (1 :> [ name |-> "demo", owner_id |-> "u1" ])
                  @@ (2 :> [ name |-> "demo", owner_id |-> "u2" ])
  /\ \E active \in BOOLEAN, stored \in BOOLEAN :
       /\ draws = IF stored THEN 1 ELSE 0
       /\ api_keys = IF stored /\ ~ strict_length
                     THEN { StoredKey(1, 1, 1, active) }
                     ELSE {}
  /\ events = {}
  /\ next_event_id = 1
  /\ call = [ seq |-> 0, op |-> "init", args |-> << >>, ret |-> RetNone ]
  /\ sess = [ w \in Workers |-> Idle ]
  /\ next_project_id = 3
  /\ users = {}
  /\ logs = {}
  /\ next_log_id = 1
  /\ now = 0

\* deactivate_api_key, lines 57-60: the session loads the active key
rotate_query(w, project_id) ==
  /\ sess[w].pc = "idle"
  /\ LET found == ActiveKeys(api_keys, project_id)
         id == IF found = {} THEN 0 ELSE (CHOOSE k \in found : TRUE).id
     IN sess' = [ sess EXCEPT ![w] = [ pc |-> "queried", project_id |-> project_id,
                                       found |-> id, ret |-> RetNone ] ]
  /\ UNCHANGED << users, logs, next_log_id, now, next_project_id, strict_length, projects, api_keys, events, next_event_id, draws, call >>

\* deactivate_api_key, lines 61-65: the loaded row is written back inactive
rotate_deactivate(w) ==
  /\ sess[w].pc = "queried"
  /\ api_keys' = { IF k.id = sess[w].found THEN [ k EXCEPT !.is_active = FALSE ] ELSE k
                   : k \in api_keys }
  /\ sess' = [ sess EXCEPT ![w].pc = "deactivated" ]
  /\ UNCHANGED << users, logs, next_log_id, now, next_project_id, strict_length, projects, events, next_event_id, draws, call >>

\* create_api_key, lines 13-29
rotate_insert(w) ==
  /\ sess[w].pc = "deactivated"
  /\ draws < NumSecrets
  /\ LET r == CreateApiKey(api_keys, sess[w].project_id, None, draws + 1, FALSE)
     IN /\ api_keys' = r.rows
        /\ sess' = [ sess EXCEPT ![w].pc = "done", ![w].ret = r.ret ]
  /\ draws' = draws + 1
  /\ UNCHANGED << users, logs, next_log_id, now, next_project_id, strict_length, projects, events, next_event_id, call >>

NextRotate ==
  \/ \E w \in Workers, p \in ProjectIds : rotate_query(w, p)
  \/ \E w \in Workers : rotate_deactivate(w)
  \/ \E w \in Workers : rotate_insert(w)

SpecRotate == InitRotate /\ [][NextRotate]_vars

(***************************************************************************)
(* Properties of the credential manager and the ownership guard.           *)
(***************************************************************************)
HasActiveKey(rows, project_id) == ActiveKeys(rows, project_id) # {}
KeysOfProject(rows, project_id) == { k \in rows : k.project_id = project_id }

\* C1: in every reachable state each project has at most one API key row
\* with is_active = true.
C1_AtMostOneActiveKey ==
  \A p \in ProjectIds : Cardinality(ActiveKeys(api_keys, p)) <= 1

\* a create_api_key on a project that already holds its active key was
\* turned down and the key is still the only active one
C1_Witness ==
  /\ call.op = "create_api_key"
  /\ ~ call.args.fault
  /\ call.ret = RetNone
  /\ Cardinality(ActiveKeys(api_keys, call.args.project_id)) = 1

\* C2: a regenerate_api_key that returns no key leaves the key that was
\* active before the call active.
C2_FailedRotationKeepsKey ==
  [][ ( /\ call'.op = "regenerate_api_key"
        /\ call'.ret = RetNone
        /\ HasActiveKey(api_keys, call'.args.project_id) )
      => ActiveKeys(api_keys', call'.args.project_id)
           = ActiveKeys(api_keys, call'.args.project_id) ]_vars

\* C3: a regenerate_api_key that succeeds on a project with an active key
\* leaves exactly one active key, whose hash differs from the hash of the
\* key active before the call.
C3_RotationReplacesKey ==
  [][ ( /\ call'.op = "regenerate_api_key"
        /\ call'.ret.kind = "APIKey"
        /\ HasActiveKey(api_keys, call'.args.project_id) )
      => /\ Cardinality(ActiveKeys(api_keys', call'.args.project_id)) = 1
         /\ \A old \in ActiveKeys(api_keys, call'.args.project_id),
               new \in ActiveKeys(api_keys', call'.args.project_id) :
              new.key_hash # old.key_hash ]_vars

\* the case C3 is about never happens: on a project that holds a key row,
\* active or not, the insert of regenerate_api_key is always turned down
RotationOnKeyedProjectFails ==
  [][ ( /\ call'.op = "regenerate_api_key"
        /\ KeysOfProject(api_keys, call'.args.project_id) # {} )
      => call'.ret = RetNone ]_vars

\* the plaintext a returned value carries: an APIKey object has no such
\* attribute
ReturnedPlaintext(ret) ==
  IF "full_key" \in DOMAIN ret THEN ret.full_key ELSE None

\* C5: a successful creation or rotation returns the plaintext secret of the
\* new key, whose hash is the key_hash stored in the new row.
C5_ReturnsPlaintext ==
  ( /\ call.op \in { "create_api_key", "regenerate_api_key" }
    /\ call.ret.kind = "APIKey" )
  => /\ ReturnedPlaintext(call.ret) # None
     /\ hash_api_key(ReturnedPlaintext(call.ret)) = call.ret.row.key_hash

\* the rows a read operation handed to its caller
ReturnedRows(ret) ==
  IF ret.kind = "APIKey" THEN { ret.row }
  ELSE IF ret.kind = "list" THEN ret.rows
  ELSE {}

Leaks(row, secret) ==
  \/ Contains(row.key_hash, secret)
  \/ Contains(row.masked_key, secret)
  \/ Contains(row.description, secret)

\* C6: no stored key field equals or contains a plaintext secret, and no
\* read operation returns one.
C6_PlaintextNotStored ==
  \A secret \in Issued :
    /\ \A k \in api_keys : ~ Leaks(k, secret)
    /\ call.op \in { "get_project_api_key", "get_api_key_by_key_hash",
                     "get_all_active_api_keys" }
         => \A k \in ReturnedRows(call.ret) : ~ Leaks(k, secret)

\* a read returned a stored key
C6_Witness ==
  /\ call.op = "get_project_api_key"
  /\ call.ret.kind = "APIKey"
  /\ call.ret.row \in api_keys

\* C7: with the store answering, deactivate_api_key on a project with an
\* active key returns true; called again right after, it returns false and
\* changes nothing; it never raises, whatever the store does.
C7_DeactivateTwice ==
  /\ [][ ( /\ call'.op = "deactivate_api_key"
           /\ ~ call'.args.fault
           /\ HasActiveKey(api_keys, call'.args.project_id) )
         => /\ call'.ret = RetBool(TRUE)
            /\ ~ HasActiveKey(api_keys', call'.args.project_id) ]_vars
  /\ [][ ( /\ call.op = "deactivate_api_key"
           /\ call.ret = RetBool(TRUE)
           /\ call'.op = "deactivate_api_key"
           /\ call'.args.project_id = call.args.project_id )
         => /\ call'.ret = RetBool(FALSE)
            /\ api_keys' = api_keys ]_vars
  /\ [](call.op = "deactivate_api_key" => call.ret.kind = "bool")

\* a deactivate_api_key that found the project's key already inactive
C7_Witness ==
  /\ call.op = "deactivate_api_key"
  /\ ~ call.args.fault
  /\ call.ret = RetBool(FALSE)
  /\ \E k \in api_keys : k.project_id = call.args.project_id /\ ~ k.is_active

\* hashes of the keys that have been deactivated
DeadHashes == { k.key_hash : k \in { r \in api_keys : ~ r.is_active } }

\* C8: the lookup by hash returns a key only when a row with that hash is
\* active; a deactivated key stays deactivated and its secret never
\* authenticates again.
C8_DeactivatedNeverAuthenticates ==
  /\ [](call.op = "get_api_key_by_key_hash" =>
          IF \E k \in api_keys : k.key_hash = call.args.key_hash /\ k.is_active
          THEN /\ call.ret.kind = "APIKey"
               /\ call.ret.row \in api_keys
               /\ call.ret.row.is_active
               /\ call.ret.row.key_hash = call.args.key_hash
          ELSE call.ret = RetNone)
  /\ [](call.op = "get_api_key_dep" /\ Digest[call.args.api_key] \in DeadHashes
          => call.ret.kind = "raise")
  /\ [][DeadHashes \subseteq DeadHashes']_vars
  /\ [](\A k \in api_keys : k.is_active => k.key_hash \notin DeadHashes)

\* the secret of a deactivated key was presented and turned down
C8_Witness ==
  /\ call.op = "get_api_key_dep"
  /\ call.args.api_key # WrongKey
  /\ Digest[call.args.api_key] \in DeadHashes
  /\ call.ret.kind = "raise"

Nonexistent(project_id) == project_id \notin DOMAIN projects
Foreign(project_id, user_id) ==
  /\ project_id \in DOMAIN projects
  /\ projects[project_id].owner_id # user_id

\* C9: check_project_ownership answers a project id that does not exist and
\* a project owned by another user with the same error, and changes no
\* stored state.
C9_OwnershipOpacity ==
  /\ [](( /\ call.op = "check_project_ownership"
          /\ \/ Nonexistent(call.args.project_id)
             \/ Foreign(call.args.project_id, call.args.user_id) )
        => call.ret = IF call.args.fault
                      THEN Err(HTTPException(500, "Database error occurred"))
                      ELSE Err(NotFoundOrForbidden))
  /\ [][ call'.op = "check_project_ownership"
         => UNCHANGED << projects, api_keys, events >> ]_vars

\* the guard turned down a user asking for another user's project while
\* another id named no project at all
C9_Witness ==
  /\ call.op = "check_project_ownership"
  /\ ~ call.args.fault
  /\ Foreign(call.args.project_id, call.args.user_id)
  /\ \E p \in ProjectIds : Nonexistent(p)
  /\ call.ret = Err(NotFoundOrForbidden)


\* C4: when two regenerate_api_key calls on one project have both
\* finished, whatever the order of their steps, the project has exactly one
\* active key.
C4_RaceLeavesOneKey ==
  ( /\ \A w \in Workers : sess[w].pc = "done"
    /\ sess["w1"].project_id = sess["w2"].project_id )
  => Cardinality(ActiveKeys(api_keys, sess["w1"].project_id)) = 1


EventsOf(rows, project_id) == { e \in rows : e.project_id = project_id }

\* C10: a request of a bearer-authenticated user leaves the events and keys
\* of every project of another owner as they were; in particular
\* create_event_route stores nothing in such a project.
C10_ForeignProjectUntouched ==
  [][ \A p \in DOMAIN projects :
        ( /\ call'.op \in { "create_event_route", "update_event_route",
                            "delete_event_route", "generate_api_key_route",
                            "reset_api_key_route" }
          /\ projects[p].owner_id # call'.args.user_id )
        => /\ EventsOf(events', p) = EventsOf(events, p)
           /\ KeysOfProject(api_keys', p) = KeysOfProject(api_keys, p) ]_vars


(***************************************************************************)
(* src/core/project.py: update_project and delete_project.                 *)
(***************************************************************************)
\* ownership_check.unwrap() is the True of check_project_ownership; reading
\* an attribute of a bool that it does not have raises
BoolAttribute(value, attr) ==
  Raise([ exception |-> "AttributeError", message |-> "'bool' object has no attribute" ])

GetUserProject(project_id, user_id) ==
  IF OwnedProject(project_id, user_id) = {}
  THEN Err(NotFoundOrForbidden)
  ELSE Ok([ id |-> project_id, name |-> projects[project_id].name,
            owner_id |-> projects[project_id].owner_id ])

\* update_project with project_data = {"name": name} or {}: the projects
\* table after the call and the Result returned
UpdateProject(project_id, has_name, name, user_id, fault) ==
  LET caught == HTTPException(500, "Failed to update project")
      ownership_check == CheckProjectOwnership(project_id, user_id, fault = "query")
      current_name == BoolAttribute(unwrap(ownership_check), "name")
      project_result == GetUserProject(project_id, user_id)
  IN IF is_err(ownership_check)
     THEN [ projects |-> projects, ret |-> ErrOfUnwrapErr(ownership_check, caught) ]
     ELSE IF has_name /\ current_name.kind = "raise"
     THEN [ projects |-> projects, ret |-> Err(caught) ]
     ELSE IF /\ has_name
             /\ name # current_name.value
             /\ ~ IsProjectNameAvailable(name, user_id, project_id, FALSE)
     THEN [ projects |-> projects, ret |-> Err(NameConflict) ]
     ELSE IF is_err(project_result)
     THEN [ projects |-> projects, ret |-> ErrOfUnwrapErr(project_result, caught) ]
     ELSE IF fault = "commit"
     THEN [ projects |-> projects, ret |-> Err(caught) ]
     ELSE LET project == unwrap(project_result)
              updated == IF has_name THEN [ project EXCEPT !.name = name ] ELSE project
          IN [ projects |-> [ projects EXCEPT ![project_id].name = updated.name ],
               ret |-> Ok(updated) ]

update_project(project_id, has_name, name, user_id, fault) ==
  /\ LET r == UpdateProject(project_id, has_name, name, user_id, fault)
     IN /\ projects' = r.projects
        /\ call' = [ seq |-> 1 - call.seq, op |-> "update_project",
                     args |-> [ project_id |-> project_id, has_name |-> has_name,
                                name |-> name, user_id |-> user_id, fault |-> fault ],
                     ret |-> r.ret ]
  /\ UNCHANGED << users, logs, next_log_id, now, next_project_id, strict_length,
                  api_keys, events, next_event_id, draws, sess >>

LogsOf(rows, project_id) == { l \in rows : l.project_id = project_id }

\* mutant: no child row stops the DELETE
DeleteRestricted_unchecked(project_id) == FALSE

\* the child rows that make the DELETE of a project fail at commit: an event
\* keeps its foreign key to the project, and the key row, which the session
\* detaches by setting project_id to NULL, is declared nullable=False
DeleteRestricted(project_id) ==
  \/ \E e \in events : e.project_id = project_id
  \/ \E k \in api_keys : k.project_id = project_id

\* delete_project: the projects and logs tables after the call and the Result
\* returned; logs go with the project (cascade="all, delete-orphan")
DeleteProject(project_id, user_id, fault) ==
  LET caught == HTTPException(500, "Failed to delete project")
      ownership_check == CheckProjectOwnership(project_id, user_id, fault = "query")
      project_result == GetUserProject(project_id, user_id)
      kept == [ projects |-> projects, logs |-> logs ]
  IN IF is_err(ownership_check)
     THEN kept @@ [ ret |-> ErrOfUnwrapErr(ownership_check, caught) ]
     ELSE IF is_err(project_result)
     THEN kept @@ [ ret |-> ErrOfUnwrapErr(project_result, caught) ]
     ELSE IF fault = "commit" \/ DeleteRestricted(project_id)
     THEN kept @@ [ ret |-> Err(caught) ]
     ELSE [ projects |-> [ p \in DOMAIN projects \ { project_id } |-> projects[p] ],
            logs |-> logs \ LogsOf(logs, project_id),
            ret |-> Ok(TRUE) ]

delete_project(project_id, user_id, fault) ==
  /\ LET r == DeleteProject(project_id, user_id, fault)
     IN /\ projects' = r.projects
        /\ logs' = r.logs
        /\ call' = [ seq |-> 1 - call.seq, op |-> "delete_project",
                     args |-> [ project_id |-> project_id, user_id |-> user_id,
                                fault |-> fault ],
                     ret |-> r.ret ]
  /\ UNCHANGED << users, next_log_id, now, next_project_id, strict_length,
                  api_keys, events, next_event_id, draws, sess >>

StoreFaults == { "none", "query", "commit" }

(***************************************************************************)
(* The project registry, one call after another.                           *)
(***************************************************************************)
NextProjects ==
  \/ \E name \in ProjectNames, owner \in Users, fault \in StoreFaults :
       create_project(name, owner, fault)
  \/ \E p \in ProjectIds, has_name \in BOOLEAN, name \in ProjectNames, u \in Users,
        fault \in StoreFaults :
       update_project(p, has_name, name, u, fault)
  \/ \E p \in ProjectIds, u \in Users, fault \in StoreFaults :
       delete_project(p, u, fault)

SpecProjects == Init /\ [][NextProjects]_vars

(***************************************************************************)
(* Properties of the project registry.                                     *)
(***************************************************************************)
NameTaken(table, name, owner) ==
  \E p \in DOMAIN table : table[p].name = name /\ table[p].owner_id = owner

NoDuplicateNames(table) ==
  \A p, q \in DOMAIN table :
    ( table[p].owner_id = table[q].owner_id /\ table[p].name = table[q].name )
      => p = q

\* C11: after every call no two projects of one owner have the same name; a
\* create_project of a name its owner already uses returns the Conflict error
\* and adds no project; a create_project of a name its owner does not use is
\* not turned down because another owner uses the name.
C11_UniqueNamePerOwner ==
  [][ /\ NoDuplicateNames(projects')
      /\ ( /\ call'.op = "create_project"
           /\ NameTaken(projects, call'.args.name, call'.args.owner) )
         => ( call'.ret = Err(NameConflict) /\ projects' = projects )
      /\ ( /\ call'.op = "create_project"
           /\ call'.args.fault = "none"
           /\ ~ NameTaken(projects, call'.args.name, call'.args.owner) )
         => ( /\ call'.ret.kind = "Ok"
              /\ NameTaken(projects', call'.args.name, call'.args.owner) ) ]_vars

\* two owners hold a project of the same name, and the create_project of one
\* of them for that name was turned down with Conflict
C11_Witness ==
  /\ call.op = "create_project"
  /\ call.args.fault = "none"
  /\ call.ret = Err(NameConflict)
  /\ \E p, q \in DOMAIN projects :
       /\ projects[p].name = call.args.name
       /\ projects[q].name = call.args.name
       /\ projects[p].owner_id = call.args.owner
       /\ projects[q].owner_id # call.args.owner

\* C12: update_project by the owner with a name that no other project of the
\* owner uses returns Ok and stores the name.
C12_OwnerRenames ==
  [][ ( /\ call'.op = "update_project"
        /\ call'.args.has_name
        /\ call'.args.fault = "none"
        /\ OwnedProject(call'.args.project_id, call'.args.user_id) # {}
        /\ IsProjectNameAvailable(call'.args.name, call'.args.user_id,
                                  call'.args.project_id, FALSE) )
      => /\ call'.ret.kind = "Ok"
         /\ projects'[call'.args.project_id].name = call'.args.name ]_vars


(***************************************************************************)
(* src/core/log.py                                                         *)
(***************************************************************************)
\* LogLevel: the values of the members
LogLevelValues ==
  { << "i","n","f","o" >>, << "d","e","b","u","g" >>,
    << "w","a","r","n","i","n","g" >>, << "e","r","r","o","r" >>,
    << "c","r","i","t","i","c","a","l" >> }

\* Alnum lists the 26 lower-case letters, then the 26 upper-case ones
LETTERS == 26

LowerChar(c) ==
  IF Code(c) \in (LETTERS + 1)..(2 * LETTERS) THEN Alnum[Code(c) - LETTERS] ELSE c

UpperChar(c) ==
  IF Code(c) \in 1..LETTERS THEN Alnum[Code(c) + LETTERS] ELSE c

\* str.lower(), str.upper()
Lower(s) == [ i \in 1..Len(s) |-> LowerChar(s[i]) ]
Upper(s) == [ i \in 1..Len(s) |-> UpperChar(s[i]) ]

validate_log_level(level) == Lower(level) \in LogLevelValues

InvalidLogLevel ==
  HTTPException(400, "Invalid log level. Must be: info, debug, warning, error, critical")

LogNotFound == HTTPException(404, "Log not found or access denied")
EventNotFound == HTTPException(404, "Event not found or access denied")

\* create_log with log_data = {"level": level, "message": message} or
\* {"message": message}: the table after the call and the Result returned
CreateLog(rows, id, project_id, has_level, level, message, fault) ==
  IF has_level /\ ~ validate_log_level(level)
  THEN [ rows |-> rows, ret |-> Err(InvalidLogLevel) ]
  ELSE IF fault \/ project_id \notin DOMAIN projects      \* commit raises
  THEN [ rows |-> rows,
         ret |-> Err(HTTPException(500, "Failed to create log: {e}")) ]
  ELSE LET new_log == [ id |-> id, project_id |-> project_id,
                        level |-> Upper(IF has_level THEN level ELSE << "i","n","f","o" >>),
                        message |-> message ]
       IN [ rows |-> rows \cup { new_log }, ret |-> Ok(new_log) ]

RECURSIVE NewestFirst(_)
\* order_by(created_at.desc()).all(): ids are handed out in the order of
\* creation
NewestFirst(rows) ==
  IF rows = {} THEN << >>
  ELSE LET newest == CHOOSE r \in rows : \A o \in rows : o.id <= r.id
       IN << newest >> \o NewestFirst(rows \ { newest })

GetLogsByProject(rows, project_id, user_id, fault) ==
  LET project_result == CheckProjectOwnership(project_id, user_id, fault = "query")
      caught == HTTPException(500, "Database error occurred")
  IN IF is_err(project_result) THEN ErrOfUnwrapErr(project_result, caught)
     ELSE IF fault = "commit" THEN Err(caught)           \* the query raises
     ELSE Ok(NewestFirst(LogsOf(rows, project_id)))

\* get_log_by_id: the join of logs and projects on the caller's id
GetLogById(rows, log_id, user_id, fault) ==
  LET found == { l \in rows : /\ l.id = log_id
                              /\ l.project_id \in DOMAIN projects
                              /\ projects[l.project_id].owner_id = user_id }
  IN IF fault THEN Err(HTTPException(500, "Database error occurred"))
     ELSE IF found = {} THEN Err(LogNotFound)
     ELSE Ok(CHOOSE l \in found : TRUE)

\* update_log with log_data = {"level": level} or {}
UpdateLog(rows, log_id, has_level, level, user_id, fault) ==
  LET log_result == GetLogById(rows, log_id, user_id, fault = "query")
      caught == HTTPException(500, "Failed to update log")
  IN IF is_err(log_result)
     THEN [ rows |-> rows, ret |-> ErrOfUnwrapErr(log_result, caught) ]
     ELSE LET log == unwrap(log_result)
              updated == IF has_level THEN [ log EXCEPT !.level = Lower(level) ] ELSE log
          IN IF has_level /\ ~ validate_log_level(level)
             THEN [ rows |-> rows, ret |-> Err(InvalidLogLevel) ]
             ELSE IF fault = "commit"
             THEN [ rows |-> rows, ret |-> Err(caught) ]
             ELSE [ rows |-> (rows \ { log }) \cup { updated }, ret |-> Ok(updated) ]

DeleteLog(rows, log_id, user_id, fault) ==
  LET log_result == GetLogById(rows, log_id, user_id, fault = "query")
      caught == HTTPException(500, "Failed to delete log")
  IN IF is_err(log_result)
     THEN [ rows |-> rows, ret |-> ErrOfUnwrapErr(log_result, caught) ]
     ELSE IF fault = "commit"
     THEN [ rows |-> rows, ret |-> Err(caught) ]
     ELSE [ rows |-> rows \ { unwrap(log_result) }, ret |-> Ok(TRUE) ]

GetEventsByProject(rows, project_id, user_id, fault) ==
  LET project_result == CheckProjectOwnership(project_id, user_id, fault = "query")
      caught == HTTPException(500, "Database error occurred")
  IN IF is_err(project_result) THEN ErrOfUnwrapErr(project_result, caught)
     ELSE IF fault = "commit" THEN Err(caught)           \* the query raises
     ELSE Ok(NewestFirst({ e \in rows : e.project_id = project_id }))

LogLevels == { << "E","r","r","o","r" >>, << "l","o","u","d" >> }
Messages == { << "m" >> }

(***************************************************************************)
(* The calls of src/core/log.py and src/core/event.py.                     *)
(***************************************************************************)
create_log(project_id, has_level, level, message, fault) ==
  /\ next_log_id <= MaxChildren
  /\ LET r == CreateLog(logs, next_log_id, project_id, has_level, level, message, fault)
     IN /\ logs' = r.rows
        /\ next_log_id' = IF is_err(r.ret) THEN next_log_id ELSE next_log_id + 1
        /\ call' = [ seq |-> 1 - call.seq, op |-> "create_log",
                     args |-> [ project_id |-> project_id, has_level |-> has_level,
                                level |-> level, fault |-> fault ],
                     ret |-> r.ret ]
  /\ UNCHANGED << users, now, next_project_id, strict_length, projects, api_keys,
                  events, next_event_id, draws, sess >>

get_logs_by_project(project_id, user_id, fault) ==
  /\ call' = [ seq |-> 1 - call.seq, op |-> "get_logs_by_project",
               args |-> [ project_id |-> project_id, user_id |-> user_id, fault |-> fault ],
               ret |-> GetLogsByProject(logs, project_id, user_id, fault) ]
  /\ UNCHANGED << users, logs, next_log_id, now, next_project_id, strict_length,
                  projects, api_keys, events, next_event_id, draws, sess >>

get_log_by_id(log_id, user_id, fault) ==
  /\ call' = [ seq |-> 1 - call.seq, op |-> "get_log_by_id",
               args |-> [ id |-> log_id, user_id |-> user_id, fault |-> fault ],
               ret |-> GetLogById(logs, log_id, user_id, fault) ]
  /\ UNCHANGED << users, logs, next_log_id, now, next_project_id, strict_length,
                  projects, api_keys, events, next_event_id, draws, sess >>

update_log(log_id, has_level, level, user_id, fault) ==
  /\ LET r == UpdateLog(logs, log_id, has_level, level, user_id, fault)
     IN /\ logs' = r.rows
        /\ call' = [ seq |-> 1 - call.seq, op |-> "update_log",
                     args |-> [ id |-> log_id, user_id |-> user_id, has_level |-> has_level,
                                level |-> level, fault |-> fault ],
                     ret |-> r.ret ]
  /\ UNCHANGED << users, next_log_id, now, next_project_id, strict_length, projects,
                  api_keys, events, next_event_id, draws, sess >>

delete_log(log_id, user_id, fault) ==
  /\ LET r == DeleteLog(logs, log_id, user_id, fault)
     IN /\ logs' = r.rows
        /\ call' = [ seq |-> 1 - call.seq, op |-> "delete_log",
                     args |-> [ id |-> log_id, user_id |-> user_id, fault |-> fault ],
                     ret |-> r.ret ]
  /\ UNCHANGED << users, next_log_id, now, next_project_id, strict_length, projects,
                  api_keys, events, next_event_id, draws, sess >>

create_event(project_id, event_type, event_status, fault) ==
  /\ next_event_id <= MaxChildren
  /\ LET r == CreateEvent(events, next_event_id, project_id, event_type, event_status, fault)
     IN /\ events' = r.rows
        /\ next_event_id' = IF is_err(r.ret) THEN next_event_id ELSE next_event_id + 1
        /\ call' = [ seq |-> 1 - call.seq, op |-> "create_event",
                     args |-> [ project_id |-> project_id, fault |-> fault ],
                     ret |-> r.ret ]
  /\ UNCHANGED << users, logs, next_log_id, now, next_project_id, strict_length,
                  projects, api_keys, draws, sess >>

get_events_by_project(project_id, user_id, fault) ==
  /\ call' = [ seq |-> 1 - call.seq, op |-> "get_events_by_project",
               args |-> [ project_id |-> project_id, user_id |-> user_id, fault |-> fault ],
               ret |-> GetEventsByProject(events, project_id, user_id, fault) ]
  /\ UNCHANGED << users, logs, next_log_id, now, next_project_id, strict_length,
                  projects, api_keys, events, next_event_id, draws, sess >>

get_event_by_id(event_id, user_id, fault) ==
  /\ call' = [ seq |-> 1 - call.seq, op |-> "get_event_by_id",
               args |-> [ id |-> event_id, user_id |-> user_id, fault |-> fault ],
               ret |-> GetEventById(events, event_id, user_id, fault) ]
  /\ UNCHANGED << users, logs, next_log_id, now, next_project_id, strict_length,
                  projects, api_keys, events, next_event_id, draws, sess >>

update_event(event_id, has_status, event_status, user_id, fault) ==
  /\ LET r == UpdateEvent(events, event_id, has_status, event_status, user_id, fault)
     IN /\ events' = r.rows
        /\ call' = [ seq |-> 1 - call.seq, op |-> "update_event",
                     args |-> [ id |-> event_id, user_id |-> user_id,
                                has_status |-> has_status, event_status |-> event_status,
                                fault |-> fault ],
                     ret |-> r.ret ]
  /\ UNCHANGED << users, logs, next_log_id, now, next_project_id, strict_length,
                  projects, api_keys, next_event_id, draws, sess >>

delete_event(event_id, user_id, fault) ==
  /\ LET r == DeleteEvent(events, event_id, user_id, fault)
     IN /\ events' = r.rows
        /\ call' = [ seq |-> 1 - call.seq, op |-> "delete_event",
                     args |-> [ id |-> event_id, user_id |-> user_id, fault |-> fault ],
                     ret |-> r.ret ]
  /\ UNCHANGED << users, logs, next_log_id, now, next_project_id, strict_length,
                  projects, api_keys, next_event_id, draws, sess >>

\* two projects, one of each user
InitTwoProjects ==
  /\ strict_length \in BOOLEAN
  /\ projects = (1 :> [ name |-> "demo", owner_id |-> "u1" ])
                  @@ (2 :> [ name |-> "demo", owner_id |-> "u2" ])
  /\ next_project_id = 3
  /\ api_keys = {}
  /\ events = {}
  /\ next_event_id = 1
  /\ draws = 0
  /\ call = [ seq |-> 0, op |-> "init", args |-> << >>, ret |-> RetNone ]
  /\ sess = [ w \in Workers |-> Idle ]
  /\ users = {}
  /\ logs = {}
  /\ next_log_id = 1
  /\ now = 0

(***************************************************************************)
(* Projects with logs, events and keys, and their deletion.                *)
(***************************************************************************)
NextCascade ==
  \/ \E p \in 1..2 : create_log(p, TRUE, << "E","r","r","o","r" >>, << "m" >>, FALSE)
  \/ \E p \in 1..2 : create_event(p, << "o", "k" >>, None, FALSE)
  \/ \E p \in 1..2 : create_api_key(p, None, FALSE)
  \/ \E l \in 1..MaxChildren, u \in Users : delete_log(l, u, "none")
  \/ \E e \in 1..MaxChildren, u \in Users : delete_event(e, u, FALSE)
  \/ \E p \in 1..2, u \in Users, fault \in StoreFaults : delete_project(p, u, fault)

SpecCascade == InitTwoProjects /\ [][NextCascade]_vars

References == { l.project_id : l \in logs } \cup { e.project_id : e \in events }
                \cup { k.project_id : k \in api_keys }

\* C13: every log, event and API key references an existing project; in
\* particular none references a project whose delete_project has succeeded.
C13_NoOrphans ==
  /\ References \subseteq DOMAIN projects
  /\ ( call.op = "delete_project" /\ call.ret = Ok(TRUE) )
       => call.args.project_id \notin References

\* delete_project succeeded on project 1, which held the only log ever
\* created
C13_Witness ==
  /\ call.op = "delete_project"
  /\ call.ret = Ok(TRUE)
  /\ call.args.project_id = 1
  /\ 2 \in DOMAIN projects
  /\ next_log_id = 2
  /\ logs = {}


(***************************************************************************)
(* src/utils/maybe.py                                                      *)
(***************************************************************************)
Some(value) == [ kind |-> "Some", value |-> value ]
Nothing == [ kind |-> "Nothing" ]

is_some(maybe) == maybe.kind = "Some"
is_nothing(maybe) == maybe.kind = "Nothing"

(***************************************************************************)
(* The password hasher imported from src.utils.hash: a salted one-way hash *)
(* and its verify counterpart.                                             *)
(***************************************************************************)
Emails == { "a@x.com", "b@x.com" }
Passwords == { << "p","w" >>, << "w","r","o","n","g" >> }
Salts == { << "s","1" >> }
DisplayNames == { "A" }

\* the digest of every salted password, computed once
SaltedDigest ==
  [ salt \in Salts, password \in Passwords |-> hash_api_key(salt \o password) ]

hash_password(password, salt) ==
  [ salt |-> salt, digest |-> SaltedDigest[salt, password] ]

verify_password(password, password_hash) ==
  hash_password(password, password_hash.salt) = password_hash

(***************************************************************************)
(* src/core/auth.py                                                        *)
(***************************************************************************)
\* a DateTime column: NULL or one instant
Null == << >>
At(t) == << t >>

EmailTaken == HTTPException(400, "Email already registered")
StoreError == Raise([ exception |-> "SQLAlchemyError" ])

get_user_by_email(rows, email) ==
  LET found == { u \in rows : u.email = email }
  IN IF found = {} THEN Nothing ELSE Some(CHOOSE u \in found : TRUE)

\* mutant: the lookup before the insert finds nobody
ExistingUser_nobody(rows, email) == Nothing

\* existing_user = get_user_by_email(email, database)
ExistingUser(rows, email) == get_user_by_email(rows, email)

\* create_user: the users table after the call and what the caller gets; an
\* exception of the store is not caught
CreateUser(rows, email, password, username, salt, fault) ==
  LET existing_user == ExistingUser(rows, email)
      user == [ id |-> Cardinality(rows) + 1,
                email |-> email,
                password_hash |-> hash_password(password, salt),
                display_name |-> username,
                last_login |-> Null ]
  IN IF fault = "query" THEN [ rows |-> rows, ret |-> StoreError ]
     ELSE IF is_some(existing_user) THEN [ rows |-> rows, ret |-> Err(EmailTaken) ]
     \* email = Column(String, unique=True, ...)
     ELSE IF fault = "commit" \/ \E u \in rows : u.email = email
     THEN [ rows |-> rows, ret |-> StoreError ]
     ELSE [ rows |-> rows \cup { user }, ret |-> Ok(user) ]

\* mutant: the password is not verified
AuthenticateUser_anypassword(rows, email, password, t, fault) ==
  LET user == get_user_by_email(rows, email)
  IN IF fault = "query" THEN [ rows |-> rows, ret |-> StoreError ]
     ELSE IF is_nothing(user) THEN [ rows |-> rows, ret |-> Nothing ]
     ELSE LET user_instance == [ user.value EXCEPT !.last_login = At(t) ]
          IN IF fault = "commit" THEN [ rows |-> rows, ret |-> StoreError ]
             ELSE [ rows |-> (rows \ { user.value }) \cup { user_instance },
                    ret |-> Some(user_instance) ]

\* authenticate_user at instant t
AuthenticateUser(rows, email, password, t, fault) ==
  LET user == get_user_by_email(rows, email)
  IN IF fault = "query" THEN [ rows |-> rows, ret |-> StoreError ]
     ELSE IF is_nothing(user) THEN [ rows |-> rows, ret |-> Nothing ]
     ELSE IF ~ verify_password(password, user.value.password_hash)
     THEN [ rows |-> rows, ret |-> Nothing ]
     ELSE LET user_instance == [ user.value EXCEPT !.last_login = At(t) ]
          IN IF fault = "commit" THEN [ rows |-> rows, ret |-> StoreError ]
             ELSE [ rows |-> (rows \ { user.value }) \cup { user_instance },
                    ret |-> Some(user_instance) ]

\* timedelta(minutes=15)
ACCESS_TOKEN_EXPIRE_MINUTES == 15
SECRET_KEY == "settings.SECRET_KEY"

\* a compact JWT: whether it parses, the key it was signed with, its claims
Token(wellformed, key, has_sub, sub, has_exp, exp) ==
  [ wellformed |-> wellformed, key |-> key, has_sub |-> has_sub, sub |-> sub,
    has_exp |-> has_exp, exp |-> exp ]

\* create_access_token at instant t with data = {"sub": sub} or {}
create_access_token(has_sub, sub, has_delta, expires_delta, t) ==
  LET expire == IF has_delta THEN t + expires_delta
                ELSE t + ACCESS_TOKEN_EXPIRE_MINUTES
  IN Token(TRUE, SECRET_KEY, has_sub, sub, TRUE, expire)

JWTError == Raise([ exception |-> "JWTError" ])

\* mutant: the exp claim is not verified
JwtDecode_noexpiry(token, key, t) ==
  IF ~ token.wellformed THEN JWTError
  ELSE IF token.key # key THEN JWTError
  ELSE Ok(token)

\* jwt.decode(token, key, algorithms) at instant t: the claims, or JWTError
\* for a token that does not parse, a signature made with another key, or an
\* exp claim in the past
JwtDecode(token, key, t) ==
  IF ~ token.wellformed THEN JWTError
  ELSE IF token.key # key THEN JWTError
  ELSE IF token.has_exp /\ token.exp < t THEN JWTError
  ELSE Ok(token)

credentials_exception ==
  Raise(HTTPException(401, "Could not validate credentials"))

GetCurrentUser(rows, token, t, fault) ==
  LET payload == JwtDecode(token, SECRET_KEY, t)
  IN IF payload.kind = "raise" THEN credentials_exception      \* except JWTError
     ELSE IF ~ payload.value.has_sub THEN credentials_exception \* email is None
     ELSE IF fault THEN StoreError
     ELSE LET user == get_user_by_email(rows, payload.value.sub)
          IN IF is_nothing(user) THEN credentials_exception
             ELSE user.value

\* the tokens a request can carry at instant t: issued now or long ago, for
\* any subject or none, signed with the key or another one, or not a JWT
PresentedTokens(t) ==
  { create_access_token(TRUE, sub, TRUE, ACCESS_TOKEN_EXPIRE_MINUTES, issued)
      : sub \in Emails, issued \in { t - ACCESS_TOKEN_EXPIRE_MINUTES - 1, t } }
  \cup { create_access_token(FALSE, "", FALSE, 0, t),
         Token(TRUE, "another key", TRUE, "a@x.com", TRUE, t + ACCESS_TOKEN_EXPIRE_MINUTES),
         Token(TRUE, SECRET_KEY, TRUE, "a@x.com", FALSE, 0),
         Token(FALSE, "", FALSE, "", FALSE, 0) }

\* the same token presented t minutes later in its life
Later(token, t) ==
  IF token.has_exp THEN [ token EXCEPT !.exp = @ + t ] ELSE token

(***************************************************************************)
(* The session authenticator, one call after another, and the clock.       *)
(***************************************************************************)
create_user(email, password, username, salt, fault) ==
  /\ LET r == CreateUser(users, email, password, username, salt, fault)
     IN /\ users' = r.rows
        /\ call' = [ seq |-> 1 - call.seq, op |-> "create_user",
                     args |-> [ email |-> email, password |-> password, fault |-> fault ],
                     ret |-> r.ret ]
  /\ UNCHANGED << logs, next_log_id, now, next_project_id, strict_length, projects,
                  api_keys, events, next_event_id, draws, sess >>

authenticate_user(email, password, fault) ==
  /\ LET r == AuthenticateUser(users, email, password, now, fault)
     IN /\ users' = r.rows
        /\ call' = [ seq |-> 1 - call.seq, op |-> "authenticate_user",
                     args |-> [ email |-> email, password |-> password, fault |-> fault ],
                     ret |-> r.ret ]
  /\ UNCHANGED << logs, next_log_id, now, next_project_id, strict_length, projects,
                  api_keys, events, next_event_id, draws, sess >>

get_current_user(token, fault) ==
  /\ call' = [ seq |-> 1 - call.seq, op |-> "get_current_user",
               args |-> [ token |-> token, fault |-> fault ],
               ret |-> GetCurrentUser(users, token, now, fault) ]
  /\ UNCHANGED << users, logs, next_log_id, now, next_project_id, strict_length,
                  projects, api_keys, events, next_event_id, draws, sess >>

tick ==
  /\ now < MaxClock
  /\ now' = now + 1
  /\ UNCHANGED << users, logs, next_log_id, next_project_id, strict_length, projects,
                  api_keys, events, next_event_id, draws, call, sess >>

NextAuth ==
  \/ \E email \in Emails, password \in Passwords, username \in DisplayNames,
        salt \in Salts, fault \in StoreFaults :
       create_user(email, password, username, salt, fault)
  \/ \E email \in Emails, password \in Passwords, fault \in StoreFaults :
       authenticate_user(email, password, fault)
  \/ \E token \in PresentedTokens(0), fault \in BOOLEAN :
       get_current_user(Later(token, now), fault)
  \/ tick

SpecAuth == Init /\ [][NextAuth]_vars

(***************************************************************************)
(* Properties of the session authenticator.                                *)
(***************************************************************************)
Registered(rows, email) == \E u \in rows : u.email = email

\* this step is a call of op (the clock moves without a call)
Called(op) == call'.seq # call.seq /\ call'.op = op

\* C14: after every call no two users share an email; a create_user with a
\* registered email returns the Conflict error (400, 'Email already
\* registered') and leaves the users as they were.
C14_EmailConflict ==
  [][ /\ \A u, v \in users' : u.email = v.email => u = v
      /\ ( /\ Called("create_user")
           /\ call'.args.fault = "none"
           /\ Registered(users, call'.args.email) )
         => ( call'.ret = Err(EmailTaken) /\ users' = users ) ]_vars

\* a signup with a registered email was answered with the Conflict error
C14_Witness ==
  /\ call.op = "create_user"
  /\ call.args.fault = "none"
  /\ call.ret = Err(EmailTaken)
  /\ Registered(users, call.args.email)

\* the user a signup with this email and password left in the table
SignedUp(rows, email, password) ==
  { u \in rows : /\ u.email = email
                 /\ \E salt \in Salts : u.password_hash = hash_password(password, salt) }

\* C15: authenticate_user with the email and password of a signup returns
\* Some(user with that email) and sets the user's last_login to the instant
\* of the call; with an unknown email or another password it returns Nothing
\* and changes no stored state.
C15_Authenticate ==
  [][ ( Called("authenticate_user") /\ call'.args.fault = "none" )
      => IF SignedUp(users, call'.args.email, call'.args.password) # {}
         THEN /\ call'.ret.kind = "Some"
              /\ call'.ret.value.email = call'.args.email
              /\ call'.ret.value.last_login = At(now)
              /\ call'.ret.value \in users'
              /\ \A u \in users' : u.email = call'.args.email => u = call'.ret.value
         ELSE /\ call'.ret = Nothing
              /\ users' = users ]_vars

\* a login with the password of the signup succeeded after the clock moved
C15_Witness ==
  /\ call.op = "authenticate_user"
  /\ call.ret.kind = "Some"
  /\ call.ret.value.last_login = At(now)
  /\ now > 0

ValidToken(token, t) ==
  /\ token.wellformed
  /\ token.key = SECRET_KEY
  /\ token.has_exp => token.exp >= t
  /\ token.has_sub

\* C16: get_current_user raises the one 401 'Could not validate credentials'
\* for a token that is expired, malformed, signed with another key, without
\* subject, or whose subject is not a registered email; it returns a user
\* only for a valid unexpired token, and that user has the subject's email.
C16_OneUnauthorized ==
  ( call.op = "get_current_user" )
  => /\ ~ ValidToken(call.args.token, now) => call.ret = credentials_exception
     /\ ( /\ ValidToken(call.args.token, now)
          /\ ~ call.args.fault
          /\ ~ Registered(users, call.args.token.sub) )
        => call.ret = credentials_exception
     /\ ( /\ ValidToken(call.args.token, now)
          /\ ~ call.args.fault
          /\ Registered(users, call.args.token.sub) )
        => ( call.ret \in users /\ call.ret.email = call.args.token.sub )

\* an expired token of a registered user was answered with the 401
C16_Witness ==
  /\ call.op = "get_current_user"
  /\ call.args.token.wellformed
  /\ call.args.token.key = SECRET_KEY
  /\ call.args.token.has_sub
  /\ Registered(users, call.args.token.sub)
  /\ call.args.token.has_exp
  /\ call.args.token.exp < now
  /\ call.ret = credentials_exception


(***************************************************************************)
(* The calls of src/core/log.py and src/core/event.py by the two users on   *)
(* the records of the first user's project, one call after another.        *)
(***************************************************************************)
BadStatus == << "b","a","d",";","s","t","a","t","u","s" >>
RecordIds == 1..MaxChildren

NextRecords ==
  \/ \E level \in LogLevels, message \in Messages :
       create_log(1, TRUE, level, message, FALSE)
  \/ \E t \in EventTypes : create_event(1, t, None, FALSE)
  \/ \E l \in RecordIds, u \in Users, fault \in BOOLEAN : get_log_by_id(l, u, fault)
  \/ \E l \in RecordIds, level \in LogLevels, u \in Users : update_log(l, TRUE, level, u, "none")
  \/ \E l \in RecordIds, u \in Users : delete_log(l, u, "none")
  \/ \E e \in RecordIds, u \in Users, fault \in BOOLEAN : get_event_by_id(e, u, fault)
  \/ \E e \in RecordIds, st \in EventStatuses \cup { BadStatus }, u \in Users :
       update_event(e, TRUE, st, u, FALSE)
  \/ \E e \in RecordIds, u \in Users : delete_event(e, u, FALSE)
  \* project 0 does not exist
  \/ \E p \in 0..2, u \in Users, fault \in StoreFaults : get_logs_by_project(p, u, fault)
  \/ \E p \in 0..2, u \in Users, fault \in StoreFaults : get_events_by_project(p, u, fault)

SpecRecords == InitTwoProjects /\ [][NextRecords]_vars

(***************************************************************************)
(* Properties of the log and event operations.                             *)
(***************************************************************************)
\* the record with this id, if the user owns its project
OwnedRecord(rows, id, user_id) ==
  { r \in rows : /\ r.id = id
                 /\ r.project_id \in DOMAIN projects
                 /\ projects[r.project_id].owner_id = user_id }

ForeignRecordCall(ops, rows) ==
  /\ \E op \in ops : Called(op)
  /\ \E r \in rows : r.id = call'.args.id
  /\ OwnedRecord(rows, call'.args.id, call'.args.user_id) = {}

\* C18: get, update and delete of a log or an event by a user who does not
\* own the record's project return the 404 that an unknown id gets, and
\* leave the record as stored.
C18_ForeignRecordNotFound ==
  [][ /\ ( /\ ForeignRecordCall({ "get_log_by_id", "update_log", "delete_log" }, logs)
           /\ call'.op = "get_log_by_id" => ~ call'.args.fault )
         => ( call'.ret = Err(LogNotFound) /\ logs' = logs )
      /\ ( /\ ForeignRecordCall({ "get_event_by_id", "update_event", "delete_event" }, events)
           /\ call'.op = "get_event_by_id" => ~ call'.args.fault )
         => ( call'.ret = Err(EventNotFound) /\ events' = events ) ]_vars

\* C19: get_logs_by_project and get_events_by_project for a project the
\* caller does not own, or that does not exist, return the unified
\* NotFoundOrForbidden error (404, 'Project not found or access denied').
C19_ForeignListingNotFound ==
  [][ ( /\ Called("get_logs_by_project") \/ Called("get_events_by_project")
        /\ call'.args.fault = "none"
        /\ OwnedProject(call'.args.project_id, call'.args.user_id) = {} )
      => call'.ret = Err(NotFoundOrForbidden) ]_vars


(***************************************************************************)
(* src/utils/result.py: match.  A callback is a Python function: applied   *)
(* to an argument it returns a value or raises.  Calling it is recorded.   *)
(***************************************************************************)
Return(value) == [ kind |-> "return", value |-> value ]
ZeroDivisionError == Raise([ exception |-> "ZeroDivisionError" ])

\* lambda x: x * 2, lambda e: 0, lambda x: 1 / 0
Behaviours == { "double", "zero", "raise" }

Apply(callback, arg) ==
  CASE callback.behaviour = "double" -> Return(arg * 2)
    [] callback.behaviour = "zero" -> Return(0)
    [] callback.behaviour = "raise" -> ZeroDivisionError

\* callback(arg): the calls made and what comes back to the caller, a
\* returned value or the exception on its way up
Invoke(callback, arg) ==
  [ calls |-> << [ callback |-> callback.id, arg |-> arg ] >>,
    ret |-> Apply(callback, arg) ]

\* Ok.match
Ok_match(self, on_success, on_error) == Invoke(on_success, self.value)

\* mutant: Err.match calls the success branch
Err_match_success(self, on_success, on_error) == Invoke(on_success, self.error)

\* Err.match
Err_match(self, on_success, on_error) == Invoke(on_error, self.error)

\* result.match(on_success, on_error), dispatched on the class of result
Result_match(result, on_success, on_error) ==
  IF result.kind = "Ok" THEN Ok_match(result, on_success, on_error)
  ELSE Err_match(result, on_success, on_error)

\* the free function match(result, on_success=..., on_error=...)
match(result, on_success, on_error) == Result_match(result, on_success, on_error)

MatchValues == 0..MaxValue
Results == { Ok(v) : v \in MatchValues } \cup { Err(v) : v \in MatchValues }
SuccessCallbacks == { [ id |-> "on_success", behaviour |-> b ] : b \in Behaviours }
ErrorCallbacks == { [ id |-> "on_error", behaviour |-> b ] : b \in Behaviours }

match_function(result, on_success, on_error) ==
  /\ call' = [ seq |-> 1 - call.seq, op |-> "match",
               args |-> [ result |-> result, on_success |-> on_success,
                          on_error |-> on_error ],
               ret |-> match(result, on_success, on_error) ]
  /\ UNCHANGED << users, logs, next_log_id, now, next_project_id, strict_length,
                  projects, api_keys, events, next_event_id, draws, sess >>

match_method(result, on_success, on_error) ==
  /\ call' = [ seq |-> 1 - call.seq, op |-> "Result.match",
               args |-> [ result |-> result, on_success |-> on_success,
                          on_error |-> on_error ],
               ret |-> Result_match(result, on_success, on_error) ]
  /\ UNCHANGED << users, logs, next_log_id, now, next_project_id, strict_length,
                  projects, api_keys, events, next_event_id, draws, sess >>

NextMatch ==
  \/ \E r \in Results, s \in SuccessCallbacks, e \in ErrorCallbacks : match_function(r, s, e)
  \/ \E r \in Results, s \in SuccessCallbacks, e \in ErrorCallbacks : match_method(r, s, e)

SpecMatch == Init /\ [][NextMatch]_vars

\* the one call match has to make, and what it has to hand back
ExpectedMatch(result, on_success, on_error) ==
  IF result.kind = "Ok"
  THEN [ calls |-> << [ callback |-> "on_success", arg |-> result.value ] >>,
         ret |-> Apply(on_success, result.value) ]
  ELSE [ calls |-> << [ callback |-> "on_error", arg |-> result.error ] >>,
         ret |-> Apply(on_error, result.error) ]

\* C20: match(r, on_success, on_error) and r.match(on_success, on_error)
\* both make exactly one call, on_success(value) for Ok and on_error(error)
\* for Err, and hand back what that call returned or raised; so they agree
\* and raise only when the callback raised.
C20_MatchCallsOneBranch ==
  call.op \in { "match", "Result.match" }
  => /\ call.ret = ExpectedMatch(call.args.result, call.args.on_success, call.args.on_error)
     /\ Len(call.ret.calls) = 1
     /\ call.ret.ret.kind = "raise"
          => call.ret.ret = Apply(IF call.args.result.kind = "Ok"
                                  THEN call.args.on_success ELSE call.args.on_error,
                                  call.ret.calls[1].arg)

\* match on an Err whose on_error callback raises, with an on_success that
\* would have returned: the exception comes up
C20_Witness ==
  /\ call.op = "match"
  /\ call.args.result = Err(MaxValue)
  /\ call.args.on_success.behaviour = "double"
  /\ call.args.on_error.behaviour = "raise"
  /\ call.ret.ret = ZeroDivisionError

(***************************************************************************)
(* src/routers/project.py, src/routers/auth.py: the routes that turn the   *)
(* Result of a core call into the answer of a request.  The call record of *)
(* a route also holds that Result, in its field result.                    *)
(***************************************************************************)
\* the status the client sees: the one of a raised HTTPException, 500 for
\* any other exception that leaves the route, the route's own otherwise
StatusCode(answer, success) ==
  IF answer.kind # "raise" THEN success
  ELSE IF "status_code" \in DOMAIN answer.error THEN answer.error.status_code
  ELSE 500

\* if result.is_err(): raise result.unwrap(); return result.unwrap()
RouteAnswerUnwrap(result) ==
  IF is_err(result) THEN unwrap(result) ELSE Response(unwrap(result))

create_project_route(name, current_user, fault) ==
  /\ LET r == CreateProject(name, current_user, fault)
     IN /\ is_err(r.ret) \/ next_project_id <= MaxProjects
        /\ projects' = r.projects
        /\ next_project_id' = IF is_err(r.ret) THEN next_project_id ELSE next_project_id + 1
        /\ call' = [ seq |-> 1 - call.seq, op |-> "create_project_route",
                     args |-> [ name |-> name, user_id |-> current_user, fault |-> fault ],
                     result |-> r.ret,
                     ret |-> RouteAnswerUnwrap(r.ret) ]
  /\ UNCHANGED << users, logs, next_log_id, now, strict_length, api_keys, events,
                  next_event_id, draws, sess >>

get_project(project_id, current_user) ==
  /\ LET result == GetUserProject(project_id, current_user)
     IN call' = [ seq |-> 1 - call.seq, op |-> "get_project",
                  args |-> [ project_id |-> project_id, user_id |-> current_user ],
                  result |-> result,
                  ret |-> RouteAnswerUnwrap(result) ]
  /\ UNCHANGED << projects, next_project_id, users, logs, next_log_id, now, strict_length,
                  api_keys, events, next_event_id, draws, sess >>

update_project_route(project_id, name, current_user, fault) ==
  /\ LET r == UpdateProject(project_id, TRUE, name, current_user, fault)
     IN /\ projects' = r.projects
        /\ call' = [ seq |-> 1 - call.seq, op |-> "update_project_route",
                     args |-> [ project_id |-> project_id, name |-> name,
                                user_id |-> current_user, fault |-> fault ],
                     result |-> r.ret,
                     ret |-> RouteAnswer(r.ret) ]
  /\ UNCHANGED << users, logs, next_log_id, now, next_project_id, strict_length,
                  api_keys, events, next_event_id, draws, sess >>

delete_project_route(project_id, current_user, fault) ==
  /\ LET r == DeleteProject(project_id, current_user, fault)
     IN /\ projects' = r.projects
        /\ logs' = r.logs
        /\ call' = [ seq |-> 1 - call.seq, op |-> "delete_project_route",
                     args |-> [ project_id |-> project_id, user_id |-> current_user,
                                fault |-> fault ],
                     result |-> r.ret,
                     ret |-> IF is_err(r.ret) THEN unwrap(r.ret) ELSE Response(<< >>) ]
  /\ UNCHANGED << users, next_log_id, now, next_project_id, strict_length,
                  api_keys, events, next_event_id, draws, sess >>

\* signup: what create_user raises passes through; on an Err the error is
\* read with new_user.unwrap(), which raises before the isinstance test
Signup(new_user) ==
  IF new_user.kind = "raise" THEN new_user
  ELSE IF is_err(new_user) THEN unwrap(new_user)
  ELSE Response([ id |-> unwrap(new_user).id,
                  username |-> unwrap(new_user).display_name,
                  email |-> unwrap(new_user).email ])

signup(email, password, username, salt, fault) ==
  /\ LET r == CreateUser(users, email, password, username, salt, fault)
     IN /\ users' = r.rows
        /\ call' = [ seq |-> 1 - call.seq, op |-> "signup",
                     args |-> [ email |-> email, password |-> password, fault |-> fault ],
                     result |-> r.ret,
                     ret |-> Signup(r.ret) ]
  /\ UNCHANGED << logs, next_log_id, now, next_project_id, strict_length, projects,
                  api_keys, events, next_event_id, draws, sess >>

(***************************************************************************)
(* The project and signup routes, one request after another.               *)
(***************************************************************************)
NextTransport ==
  \/ \E name \in KeyProjectNames, u \in Users, fault \in StoreFaults :
       create_project_route(name, u, fault)
  \/ \E p \in ProjectIds, u \in Users : get_project(p, u)
  \/ \E p \in ProjectIds, name \in ProjectNames, u \in Users, fault \in StoreFaults :
       update_project_route(p, name, u, fault)
  \/ \E p \in ProjectIds, u \in Users, fault \in StoreFaults :
       delete_project_route(p, u, fault)
  \/ \E email \in Emails, username \in DisplayNames, salt \in Salts,
        fault \in StoreFaults :
       signup(email, << "p", "w" >>, username, salt, fault)

SpecTransport == Init /\ [][NextTransport]_vars

ClientErrors == { 400, 404 }

\* C21: whenever the core call of a route returned an Err whose error has
\* status 400 or 404 (Validation, Conflict, NotFoundOrForbidden), the answer
\* of the route has that same status, whether the route reads the error with
\* unwrap() or with unwrap_err().
C21_RouteKeepsErrorStatus ==
  ( /\ call.op \in { "create_project_route", "get_project", "update_project_route",
                     "delete_project_route", "signup" }
    /\ is_err(call.result)
    /\ call.result.error.status_code \in ClientErrors )
  => StatusCode(call.ret, 200) = call.result.error.status_code

(***************************************************************************)
(* Properties of create_api_key on a project that already holds a key.     *)
(***************************************************************************)
\* C22: a create_api_key that meets no store failure, on a project that
\* already has a key row (active or not), succeeds, and afterwards the key
\* it returned is the only active key of the project.
C22_CreateReplacesExistingKey ==
  [][ ( /\ call'.op = "create_api_key"
        /\ ~ call'.args.fault
        /\ KeysOfProject(api_keys, call'.args.project_id) # {} )
      => /\ call'.ret.kind = "APIKey"
         /\ ActiveKeys(api_keys', call'.args.project_id) = { call'.ret.row } ]_vars

(***************************************************************************)
(* Properties of the key-authentication dependency.                        *)
(***************************************************************************)
\* the rows whose hash is the hash of the presented secret
Matching(rows, api_key) == { k \in rows : k.key_hash = Digest[api_key] }

\* C23: get_api_key_dep answers a secret that matches only inactive keys
\* exactly as it answers a secret that matches no key at all: same status,
\* same detail.
C23_InactiveLooksWrong ==
  ( /\ call.op = "get_api_key_dep"
    /\ \A k \in Matching(api_keys, call.args.api_key) : ~ k.is_active )
  => call.ret = GetApiKeyDep(api_keys, WrongKey)

\* the secret of a deactivated key was presented and turned down
C23_Witness ==
  /\ call.op = "get_api_key_dep"
  /\ Matching(api_keys, call.args.api_key) # {}
  /\ \A k \in Matching(api_keys, call.args.api_key) : ~ k.is_active
  /\ Matching(api_keys, WrongKey) = {}
  /\ call.ret = Raise(HTTPException(403, "Invalid API Key"))

(***************************************************************************)
(* src/routers/log.py, src/routers/event.py: the routes a key              *)
(* authenticates.                                                          *)
(***************************************************************************)
\* a project id as text: str() of a stored UUID is its canonical spelling,
\* the text of a request path may spell the same id another way
Str(uuid) == [ id |-> uuid, canonical |-> TRUE ]
PathIds == [ id : 1..2, canonical : BOOLEAN ]

\* the UUID the store reads out of the text
Uuid(text) == text.id

\* mutant: the key is not compared with the path
KeyNotAuthorized_unchecked(api_key, project_id) == FALSE

\* if str(api_key.project_id) != project_id
KeyNotAuthorized(api_key, project_id) == Str(api_key.project_id) # project_id

\* create_log_route: the logs table after the request and the answer;
\* log_data.dict() always holds a level
CreateLogRoute(project_id, secret, level, message, fault) ==
  LET api_key == GetApiKeyDep(api_keys, secret)
      r == CreateLog(logs, next_log_id, Uuid(project_id), TRUE, level, message, fault)
  IN IF api_key.kind = "raise" THEN [ rows |-> logs, ret |-> api_key ]
     ELSE IF KeyNotAuthorized(api_key.row, project_id)
     THEN [ rows |-> logs,
            ret |-> Raise(HTTPException(403, "API Key not authorized for this project")) ]
     ELSE [ rows |-> r.rows, ret |-> RouteAnswerUnwrap(r.ret) ]

\* create_log_api_key_route: the project is the one of the key; str() of a
\* UUID is never empty
CreateLogApiKeyRoute(secret, level, message, fault) ==
  LET api_key == GetApiKeyDep(api_keys, secret)
      project_id == Str(api_key.row.project_id)
      r == CreateLog(logs, next_log_id, Uuid(project_id), TRUE, level, message, fault)
  IN IF api_key.kind = "raise" THEN [ rows |-> logs, ret |-> api_key ]
     ELSE [ rows |-> r.rows, ret |-> RouteAnswerUnwrap(r.ret) ]

CreateEventApiKeyRoute(secret, event_type, event_status, fault) ==
  LET api_key == GetApiKeyDep(api_keys, secret)
      project_id == Str(api_key.row.project_id)
      r == CreateEvent(events, next_event_id, Uuid(project_id), event_type, event_status, fault)
  IN IF api_key.kind = "raise" THEN [ rows |-> events, ret |-> api_key ]
     ELSE [ rows |-> r.rows, ret |-> RouteAnswerUnwrap(r.ret) ]

create_log_route(project_id, secret, level, message, fault) ==
  /\ LET r == CreateLogRoute(project_id, secret, level, message, fault)
     IN /\ r.rows = logs \/ next_log_id <= MaxChildren
        /\ logs' = r.rows
        /\ next_log_id' = IF r.rows = logs THEN next_log_id ELSE next_log_id + 1
        /\ call' = [ seq |-> 1 - call.seq, op |-> "create_log_route",
                     args |-> [ project_id |-> project_id, api_key |-> secret,
                                level |-> level, fault |-> fault ],
                     ret |-> r.ret ]
  /\ UNCHANGED << users, now, next_project_id, strict_length, projects, api_keys,
                  events, next_event_id, draws, sess >>

create_log_api_key_route(secret, level, message, fault) ==
  /\ LET r == CreateLogApiKeyRoute(secret, level, message, fault)
     IN /\ r.rows = logs \/ next_log_id <= MaxChildren
        /\ logs' = r.rows
        /\ next_log_id' = IF r.rows = logs THEN next_log_id ELSE next_log_id + 1
        /\ call' = [ seq |-> 1 - call.seq, op |-> "create_log_api_key_route",
                     args |-> [ api_key |-> secret, level |-> level, fault |-> fault ],
                     ret |-> r.ret ]
  /\ UNCHANGED << users, now, next_project_id, strict_length, projects, api_keys,
                  events, next_event_id, draws, sess >>

create_event_api_key_route(secret, event_type, event_status, fault) ==
  /\ LET r == CreateEventApiKeyRoute(secret, event_type, event_status, fault)
     IN /\ r.rows = events \/ next_event_id <= MaxChildren
        /\ events' = r.rows
        /\ next_event_id' = IF r.rows = events THEN next_event_id ELSE next_event_id + 1
        /\ call' = [ seq |-> 1 - call.seq, op |-> "create_event_api_key_route",
                     args |-> [ api_key |-> secret, event_type |-> event_type,
                                fault |-> fault ],
                     ret |-> r.ret ]
  /\ UNCHANGED << users, now, next_project_id, strict_length, projects, api_keys,
                  logs, next_log_id, draws, sess >>

(***************************************************************************)
(* Two projects, their keys, and the ingestion requests of the SDK.        *)
(***************************************************************************)
\* the secrets of the first two keys drawn, and one that is no key's
IngestSecrets == { Generated[n].full_key : n \in 1..2 } \cup { WrongKey }

\* two projects and the key create_api_key stored for each, where the store
\* took the masked key
InitIngest ==
  /\ strict_length \in BOOLEAN
  /\ projects = (1 :> [ name |-> "demo", owner_id |-> "u1" ])
                  @@ (2 :> [ name |-> "demo", owner_id |-> "u2" ])
  /\ next_project_id = 3
  /\ draws = 2
  /\ api_keys = IF strict_length THEN {}
                ELSE { StoredKey(1, 1, 1, TRUE), StoredKey(2, 2, 2, TRUE) }
  /\ events = {}
  /\ next_event_id = 1
  /\ call = [ seq |-> 0, op |-> "init", args |-> << >>, ret |-> RetNone ]
  /\ sess = [ w \in Workers |-> Idle ]
  /\ users = {}
  /\ logs = {}
  /\ next_log_id = 1
  /\ now = 0

NextIngest ==
  \/ \E p \in 1..2 : deactivate_api_key(p, FALSE)
  \/ \E p \in PathIds, s \in IngestSecrets, level \in LogLevels, m \in Messages :
       create_log_route(p, s, level, m, FALSE)
  \/ \E s \in IngestSecrets, m \in Messages, fault \in BOOLEAN :
       create_log_api_key_route(s, << "i","n","f","o" >>, m, fault)
  \/ \E s \in IngestSecrets, t \in EventTypes, fault \in BOOLEAN :
       create_event_api_key_route(s, t, None, fault)

SpecIngest == InitIngest /\ [][NextIngest]_vars

\* the projects of the active keys the secret authenticates
BoundProjects(rows, secret) ==
  { k.project_id : k \in { k \in Matching(rows, secret) : k.is_active } }

\* C24: a request of a key-authenticated route stores a log or event only
\* in the project of the active key that was presented; create_log_route
\* with a path naming another project than the key's is turned down and
\* stores nothing.
C24_StoredUnderKeyProject ==
  [][ call'.op \in { "create_log_route", "create_log_api_key_route",
                     "create_event_api_key_route" }
      => /\ \A l \in logs' \ logs :
              l.project_id \in BoundProjects(api_keys, call'.args.api_key)
         /\ \A e \in events' \ events :
              e.project_id \in BoundProjects(api_keys, call'.args.api_key)
         /\ ( /\ call'.op = "create_log_route"
              /\ Uuid(call'.args.project_id)
                   \notin BoundProjects(api_keys, call'.args.api_key) )
            => /\ logs' = logs
               /\ StatusCode(call'.ret, 201) = 403 ]_vars

\* an event was stored through the key of its project, and the same active
\* key was then turned down on the path of the other project
C24_Witness ==
  /\ call.op = "create_log_route"
  /\ BoundProjects(api_keys, call.args.api_key) = { 1 }
  /\ Uuid(call.args.project_id) = 2
  /\ call.ret = Raise(HTTPException(403, "API Key not authorized for this project"))
  /\ logs = {}
  /\ \E e \in events : e.project_id = 1

(***************************************************************************)
(* Two sessions running create_project at once.  A session's steps are the *)
(* statements the store sees: the SELECT of is_project_name_available,     *)
(* then the INSERT and commit.                                             *)
(***************************************************************************)
\* create_project, line 15: the name-availability query
create_query(w, name, owner, fault) ==
  /\ sess[w].pc = "idle"
  /\ sess' = [ sess EXCEPT ![w] =
                 IF IsProjectNameAvailable(name, owner, 0, fault)
                 THEN [ pc |-> "checked", name |-> name, owner |-> owner, ret |-> RetNone ]
                 ELSE [ pc |-> "done", name |-> name, owner |-> owner,
                        ret |-> Err(NameConflict) ] ]
  /\ UNCHANGED << users, logs, next_log_id, now, next_project_id, strict_length, projects,
                  api_keys, events, next_event_id, draws, call >>

\* create_project, lines 23-29: the insert and its commit
create_insert(w, fault) ==
  /\ sess[w].pc = "checked"
  /\ IF fault
     THEN /\ sess' = [ sess EXCEPT ![w].pc = "done",
                                   ![w].ret = Err(HTTPException(500, "Failed to create project")) ]
          /\ UNCHANGED << projects, next_project_id >>
     ELSE /\ next_project_id <= MaxProjects
          /\ projects' = (next_project_id :> [ name |-> sess[w].name,
                                               owner_id |-> sess[w].owner ]) @@ projects
          /\ next_project_id' = next_project_id + 1
          /\ sess' = [ sess EXCEPT ![w].pc = "done",
                                   ![w].ret = Ok([ id |-> next_project_id,
                                                   name |-> sess[w].name,
                                                   owner_id |-> sess[w].owner ]) ]
  /\ UNCHANGED << users, logs, next_log_id, now, strict_length, api_keys, events,
                  next_event_id, draws, call >>

\* the call has returned and the worker takes the next request
create_return(w) ==
  /\ sess[w].pc = "done"
  /\ sess' = [ sess EXCEPT ![w] = Idle ]
  /\ UNCHANGED << users, logs, next_log_id, now, next_project_id, strict_length, projects,
                  api_keys, events, next_event_id, draws, call >>

NextCreateRace ==
  \/ \E w \in Workers, name \in ProjectNames, owner \in Users, fault \in BOOLEAN :
       create_query(w, name, owner, fault)
  \/ \E w \in Workers, fault \in BOOLEAN : create_insert(w, fault)
  \/ \E w \in Workers : create_return(w)

SpecCreateRace == Init /\ [][NextCreateRace]_vars

\* both sessions came back from create_project with Ok for one owner and name
BothSucceeded ==
  \E w1 \in Workers, w2 \in Workers :
    /\ w1 # w2
    /\ sess[w1].pc = "done" /\ sess[w2].pc = "done"
    /\ sess[w1].ret.kind = "Ok" /\ sess[w2].ret.kind = "Ok"
    /\ sess[w1].name = sess[w2].name
    /\ sess[w1].owner = sess[w2].owner

\* C25: however the steps of two create_project calls of one owner with one
\* name interleave, the projects table never holds two projects of that
\* owner with that name, and the two calls do not both succeed.
C25_RaceKeepsNamesUnique ==
  /\ NoDuplicateNames(projects)
  /\ ~ BothSucceeded

(***************************************************************************)
(* src/core/log.py: get_logs_by_level, and the levels logs are stored with.*)
(***************************************************************************)
GetLogsByLevel(rows, project_id, level, user_id, fault) ==
  LET caught == HTTPException(500, "Database error occurred")
      project_result == CheckProjectOwnership(project_id, user_id, fault = "query")
  IN IF ~ validate_log_level(level)
     THEN Err(HTTPException(400, "Invalid log level"))
     ELSE IF is_err(project_result) THEN ErrOfUnwrapErr(project_result, caught)
     ELSE IF fault = "commit" THEN Err(caught)           \* the query raises
     \* Log.level == level.lower(): the comparison of the store tells cases apart
     ELSE Ok(NewestFirst({ l \in LogsOf(rows, project_id) : l.level = Lower(level) }))

get_logs_by_level(project_id, level, user_id, fault) ==
  /\ call' = [ seq |-> 1 - call.seq, op |-> "get_logs_by_level",
               args |-> [ project_id |-> project_id, level |-> level,
                          user_id |-> user_id, fault |-> fault ],
               ret |-> GetLogsByLevel(logs, project_id, level, user_id, fault) ]
  /\ UNCHANGED << users, logs, next_log_id, now, next_project_id, strict_length,
                  projects, api_keys, events, next_event_id, draws, sess >>

\* levels a caller sends: a value of the enumeration, another spelling of
\* it, and a word that is no level
LevelInputs == LogLevels \cup { << "e","r","r","o","r" >>, << "i","n","f","o" >> }

(***************************************************************************)
(* Logs of two projects: written, rewritten and listed by level.           *)
(***************************************************************************)
NextLogs ==
  \/ \E p \in 1..2, has_level \in BOOLEAN, level \in LevelInputs, m \in Messages,
        fault \in BOOLEAN :
       create_log(p, has_level, level, m, fault)
  \/ \E l \in RecordIds, has_level \in BOOLEAN, level \in LevelInputs, u \in Users,
        fault \in StoreFaults :
       update_log(l, has_level, level, u, fault)
  \/ \E p \in 1..2, level \in LevelInputs, u \in Users, fault \in StoreFaults :
       get_logs_by_level(p, level, u, fault)

SpecLogs == InitTwoProjects /\ [][NextLogs]_vars

\* C26: a get_logs_by_level(P, L) of the owner that meets no store failure
\* returns logs of P of level L only, and a log that the call just before it
\* created in P with level L is among them.
C26_LevelFilterFindsCreated ==
  [][ ( /\ call'.op = "get_logs_by_level"
        /\ call'.args.fault = "none"
        /\ validate_log_level(call'.args.level)
        /\ OwnedProject(call'.args.project_id, call'.args.user_id) # {} )
      => /\ call'.ret.kind = "Ok"
         /\ \A l \in Range(call'.ret.value) :
              /\ l \in LogsOf(logs, call'.args.project_id)
              /\ Lower(l.level) = Lower(call'.args.level)
         /\ ( /\ call.op = "create_log"
              /\ call.ret.kind = "Ok"
              /\ call.args.has_level
              /\ call.args.project_id = call'.args.project_id
              /\ call.args.level = call'.args.level )
            => call.ret.value \in Range(call'.ret.value) ]_vars

\* C27: every stored log has one of the five values of LogLevel as its
\* level; a create_log, or an update_log by the owner of the log, that is
\* given any other level and meets no store failure returns the Validation
\* error and leaves the logs as they were.
C27_StoredLevelInEnumeration ==
  [][ /\ \A l \in logs' : l.level \in LogLevelValues
      /\ ( /\ call'.op = "create_log"
           /\ call'.args.has_level
           /\ ~ validate_log_level(call'.args.level) )
         => ( call'.ret = Err(InvalidLogLevel) /\ logs' = logs )
      /\ ( /\ call'.op = "update_log"
           /\ call'.args.has_level
           /\ ~ validate_log_level(call'.args.level)
           /\ call'.args.fault = "none"
           /\ OwnedRecord(logs, call'.args.id, call'.args.user_id) )
         => ( call'.ret = Err(InvalidLogLevel) /\ logs' = logs ) ]_vars

(***************************************************************************)
(* src/utils/result.py, src/utils/maybe.py: map and bind.  The function    *)
(* handed to them is a Python function: applied to a value it returns one, *)
(* or raises.                                                              *)
(***************************************************************************)
\* raised by sys.exit(): a BaseException that is not an Exception
SystemExit == Raise([ exception |-> "SystemExit" ])

\* lambda x: x * 2, lambda x: Ok(x + 1), lambda x: Err(x),
\* lambda x: Some(x + 1), lambda x: Nothing(), lambda x: 1 / 0,
\* lambda x: sys.exit()
Functions == { "double", "ok", "err", "some", "nothing", "raise", "exit" }

CallFunction(f, arg) ==
  CASE f = "double" -> Return(arg * 2)
    [] f = "ok" -> Return(Ok(arg + 1))
    [] f = "err" -> Return(Err(arg))
    [] f = "some" -> Return(Some(arg + 1))
    [] f = "nothing" -> Return(Nothing)
    [] f = "raise" -> ZeroDivisionError
    [] f = "exit" -> SystemExit

\* mutant: the handler is a bare except
ExceptException_bare(raised) == TRUE

\* except Exception: the classes the handler catches
ExceptException(raised) == raised.error.exception \in { "ZeroDivisionError" }

\* try: return <wrap>(f(value)) / except Exception as e: return <handler>(e);
\* the calls made and what comes back to the caller
TryCall(f, value, wrap, handler) ==
  LET r == CallFunction(f, value)
  IN [ calls |-> << [ callback |-> f, arg |-> value ] >>,
       ret |-> IF r.kind = "return"
               THEN Return(IF wrap = "Ok" THEN Ok(r.value)
                           ELSE IF wrap = "Some" THEN Some(r.value)
                           ELSE r.value)
               ELSE IF ExceptException(r)
               THEN Return(IF handler = "Err" THEN Err(r.error) ELSE Nothing)
               ELSE r ]

NoCall(self) == [ calls |-> << >>, ret |-> Return(self) ]

Ok_map(self, f) == TryCall(f, self.value, "Ok", "Err")
Ok_bind(self, f) == TryCall(f, self.value, "id", "Err")
Err_map(self, f) == NoCall(self)
Err_bind(self, f) == NoCall(self)

\* result.map(f), result.bind(f), dispatched on the class of result
Result_map(result, f) ==
  IF result.kind = "Ok" THEN Ok_map(result, f) ELSE Err_map(result, f)
Result_bind(result, f) ==
  IF result.kind = "Ok" THEN Ok_bind(result, f) ELSE Err_bind(result, f)

Maybe_map(self, f) ==
  IF is_some(self) THEN TryCall(f, self.value, "Some", "Nothing") ELSE NoCall(self)
Maybe_bind(self, f) ==
  IF is_some(self) THEN TryCall(f, self.value, "id", "Nothing") ELSE NoCall(self)

Maybes == { Some(v) : v \in MatchValues } \cup { Nothing }

result_map(result, f) ==
  /\ call' = [ seq |-> 1 - call.seq, op |-> "Result.map",
               args |-> [ self |-> result, f |-> f ], ret |-> Result_map(result, f) ]
  /\ UNCHANGED << users, logs, next_log_id, now, next_project_id, strict_length,
                  projects, api_keys, events, next_event_id, draws, sess >>

result_bind(result, f) ==
  /\ call' = [ seq |-> 1 - call.seq, op |-> "Result.bind",
               args |-> [ self |-> result, f |-> f ], ret |-> Result_bind(result, f) ]
  /\ UNCHANGED << users, logs, next_log_id, now, next_project_id, strict_length,
                  projects, api_keys, events, next_event_id, draws, sess >>

maybe_map(maybe, f) ==
  /\ call' = [ seq |-> 1 - call.seq, op |-> "Maybe.map",
               args |-> [ self |-> maybe, f |-> f ], ret |-> Maybe_map(maybe, f) ]
  /\ UNCHANGED << users, logs, next_log_id, now, next_project_id, strict_length,
                  projects, api_keys, events, next_event_id, draws, sess >>

maybe_bind(maybe, f) ==
  /\ call' = [ seq |-> 1 - call.seq, op |-> "Maybe.bind",
               args |-> [ self |-> maybe, f |-> f ], ret |-> Maybe_bind(maybe, f) ]
  /\ UNCHANGED << users, logs, next_log_id, now, next_project_id, strict_length,
                  projects, api_keys, events, next_event_id, draws, sess >>

NextMonad ==
  \/ \E r \in Results, f \in Functions : result_map(r, f)
  \/ \E r \in Results, f \in Functions : result_bind(r, f)
  \/ \E m \in Maybes, f \in Functions : maybe_map(m, f)
  \/ \E m \in Maybes, f \in Functions : maybe_bind(m, f)

SpecMonad == Init /\ [][NextMonad]_vars

MonadOps == { "Result.map", "Result.bind", "Maybe.map", "Maybe.bind" }
Empty(self) == self.kind \in { "Err", "Nothing" }

\* what map and bind owe their caller when f returns, or when self is an
\* Err or Nothing
ReturnsAsStated ==
  LET self == call.args.self
      f == call.args.f
      applied == CallFunction(f, self.value)
  IN /\ Empty(self) => call.ret = [ calls |-> << >>, ret |-> Return(self) ]
     /\ ~ Empty(self) => call.ret.calls = << [ callback |-> f, arg |-> self.value ] >>
     /\ ( ~ Empty(self) /\ applied.kind = "return" )
        => call.ret.ret =
             Return(CASE call.op = "Result.map" -> Ok(applied.value)
                      [] call.op = "Maybe.map" -> Some(applied.value)
                      [] OTHER -> applied.value)

\* what the caller gets for the exception f raised: an Err holding it from a
\* Result, Nothing from a Maybe
Converted(raised) ==
  Return(IF call.op \in { "Result.map", "Result.bind" } THEN Err(raised.error)
         ELSE Nothing)

\* C28 as the specification words it: whatever f raises on Ok(v) or
\* Some(v) is converted, and map and bind never raise
C28_AnyRaiseConverted ==
  call.op \in MonadOps
  => /\ ReturnsAsStated
     /\ ( ~ Empty(call.args.self)
          /\ CallFunction(call.args.f, call.args.self.value).kind = "raise" )
        => call.ret.ret = Converted(CallFunction(call.args.f, call.args.self.value))

\* C28: map and bind on an Err (Nothing) return it unchanged without calling
\* f; on Ok(v) (Some(v)) they call f(v) once, map returning Ok(f(v))
\* (Some(f(v))) and bind f(v); when f raises an exception of class Exception
\* they return an Err holding it (Nothing) instead of raising; an exception
\* outside class Exception, such as SystemExit, comes up to the caller.
C28_MapBind ==
  call.op \in MonadOps
  => /\ ReturnsAsStated
     /\ \A raised \in { ZeroDivisionError, SystemExit } :
          ( ~ Empty(call.args.self)
            /\ CallFunction(call.args.f, call.args.self.value) = raised )
          => call.ret.ret = IF raised = ZeroDivisionError THEN Converted(raised)
                            ELSE raised

\* bind on an Ok whose function raises ZeroDivisionError: the Err holding it
\* comes back
C28_Witness ==
  /\ call.op = "Result.bind"
  /\ call.args.self = Ok(MaxValue)
  /\ call.args.f = "raise"
  /\ call.ret = [ calls |-> << [ callback |-> "raise", arg |-> MaxValue ] >>,
                  ret |-> Return(Err(ZeroDivisionError.error)) ]

(***************************************************************************)
(* Core operations of every module, each with and without a failure of the *)
(* store under it.                                                         *)
(***************************************************************************)
NextFaults ==
  \/ \E username \in DisplayNames, salt \in Salts, fault \in StoreFaults :
       create_user("a@x.com", << "p", "w" >>, username, salt, fault)
  \/ \E name \in KeyProjectNames, fault \in StoreFaults : create_project(name, "u1", fault)
  \/ \E fault \in StoreFaults : delete_project(1, "u1", fault)
  \/ \E fault \in BOOLEAN : create_api_key(1, None, fault)
  \/ \E fault \in BOOLEAN : deactivate_api_key(1, fault)
  \/ \E m \in Messages, fault \in BOOLEAN :
       create_log(1, FALSE, << "i","n","f","o" >>, m, fault)
  \/ \E fault \in BOOLEAN : create_event(1, << "o","k" >>, None, fault)

SpecFaults == Init /\ [][NextFaults]_vars

\* an error value of the Internal kind
Internal(ret) == ret.kind = "Err" /\ ret.error.status_code = 500

\* C29: a core operation under which the store fails returns an error value
\* of the Internal kind (status 500); the exception of the store does not
\* come up to the caller, and no other kind of value stands for the failure.
C29_StoreFailureIsInternal ==
  /\ ( /\ call.op \in { "create_user", "create_project", "delete_project" }
       /\ call.args.fault # "none" )
     => Internal(call.ret)
  /\ ( /\ call.op \in { "create_api_key", "deactivate_api_key", "create_log",
                        "create_event" }
       /\ call.args.fault )
     => Internal(call.ret)

(***************************************************************************)
(* Properties of the masked form of a key.                                 *)
(***************************************************************************)
\* the masked form shows the prefix, the first 4 and the last 4 random
\* characters of the key, and a star for every other character
ShowsOnlyEnds(masked_key, full_key) ==
  LET shown == Len(API_KEY_PREFIX) + 4
  IN /\ Len(masked_key) = Len(full_key)
     /\ \A j \in 1..Len(full_key) :
          masked_key[j] = IF j <= shown \/ j > Len(full_key) - 4
                          THEN full_key[j] ELSE "*"

\* C30: the masked form of the key a create_api_key call generated is as
\* long as the plaintext, shows only the prefix and the first 4 and last 4
\* random characters, and is at most as long as the masked_key column; a
\* creation on a project without a key row that meets no store failure is
\* therefore not turned down.
C30_MaskedKeyFitsColumn ==
  [][ call'.op = "create_api_key"
      => LET g == generate_api_key(draws')
         IN /\ Len(g.full_key) = Len(API_KEY_PREFIX) + API_KEY_LENGTH
            /\ ShowsOnlyEnds(g.masked_key, g.full_key)
            /\ Len(g.masked_key) <= MASKED_KEY_COLUMN
            /\ ( /\ ~ call'.args.fault
                 /\ call'.args.project_id \in DOMAIN projects
                 /\ KeysOfProject(api_keys, call'.args.project_id) = {} )
               => call'.ret.kind = "APIKey" ]_vars

====
